---- MODULE Spec2Model ----
(***************************************************************************)
(* Verification model of the sugimoto-lab repository.                      *)
(*                                                                         *)
(*   Part I   fem_simulation/fem.py  : run_fem, solve_and_save,            *)
(*            _solve_newton (bias sweep ordering, Newton / homotopy).      *)
(*   Part II  pulse_control/core.py, config.py : _calc_arb_params,         *)
(*            validate() of the three config kinds, setup_arbitrary.       *)
(*                                                                         *)
(* Units.  Tip voltages are integers in millivolt.  Times are integers in  *)
(* picoseconds (the code's own GCD precision), pulse widths are given in   *)
(* half picoseconds so that round(w * 1e12) is a real rounding, the        *)
(* frequency is an integer in MHz, voltages of the pulse generator are in  *)
(* units of 0.1 V.                                                         *)
(***************************************************************************)
EXTENDS Integers, Sequences, FiniteSets, TLC

VARIABLES
    \* ---- Part I: run_fem ------------------------------------------------
    Vtip_list,      \* siml.Vtip_list, the requested tip voltages [mV]
    fpc,            \* position in run_fem
    idx,            \* index into positive / negative of the running loop
    npc,            \* position in _solve_newton: "idle" | "hmtp"
    step,           \* homotopy loop variable
    u,              \* the GridFunction u (solution vector + Dirichlet values)
    u_zero,         \* the snapshot vector u_zero (UNone before it is taken)
    hmtp_charge,    \* homotopy parameter, in tenths
    hmtp_sigma,     \* homotopy parameter, in tenths
    saves,          \* output directories written, in order
    solves,         \* completed solve_and_save calls, in order
    cur_from,       \* u at the entry of the running solve_and_save
    saves_before,   \* saves at the entry of the running solve_and_save
    newton_log,     \* Newton calls of the running _solve_newton
    n_snapshot,     \* how often u_zero was assigned
    n_restore,      \* how often u was restored from u_zero
    \* ---- Part II: arbitrary-waveform parameters -------------------------
    cfg,            \* the config object (PulseConfig / SweepConfig / DelaySweepConfig)
    apc,            \* position in the validate -> setup flow
    caller,         \* who called _calc_arb_params
    arg_n,          \* resolution_n argument of the running call
    arg_widths,     \* widths argument of the running call [half ps]
    ps_period,      \* local ps_period
    g,              \* local g
    base_points,    \* local base_points
    k,              \* local k
    pts,            \* local pts
    ret,            \* last value returned by _calc_arb_params
    ret1,           \* value returned by the resolution_n = 1 call
    exc,            \* exception that left the flow ("none" if none)
    errors,         \* the list validate() returns, as a set of rule tags
    programmed,     \* what setup_arbitrary sent: sample rate and segment length
    \* --- the instrument session (core.py, app.py, main.py)
    channels,       \* the target channels of the running operation
    ch_i,           \* position in channels of the channel being set up
    step_i,         \* loop index i of the running upload or sweep loop
    n_ops,          \* operations started so far in this session
    op_start,       \* Len(log) when the running instrument method was entered
    log,            \* everything done so far: SCPI writes and queries, sleeps, callbacks
    inst,           \* the settings of the 81180A: selected channel, per-channel state
    \* --- the console (app.py)
    ui,             \* the widgets and session state the sweep tab reads
    sess,           \* st.session_state and the instrument handles the console opened
    \* --- the command line (main.py)
    cli,            \* the process: mode, handles, log lines, steps taken, exit status
    \* --- configuration files (config.py)
    files,          \* the documents on disk and the value the last call returned
    \* --- the multimeter, logging, waveform generation
    aux             \* the object under study of the smaller components

femVars == << Vtip_list, fpc, idx, npc, step, u, u_zero, hmtp_charge, hmtp_sigma,
              saves, solves, cur_from, saves_before, newton_log, n_snapshot, n_restore >>
arbVars == << cfg, apc, caller, arg_n, arg_widths, ps_period, g, base_points, k, pts,
              ret, ret1, exc, errors, programmed >>
instVars == << channels, ch_i, step_i, n_ops, op_start, log, inst >>
uiVars == << ui >>
entryVars == << sess, cli, files, aux >>
vars == << femVars, arbVars, instVars, uiVars, entryVars >>

(***************************************************************************)
(* Generic helpers                                                         *)
(***************************************************************************)
Range(s) == { s[i] : i \in DOMAIN s }

Abs(x) == IF x < 0 THEN -x ELSE x

RECURSIVE SeqsUpTo(_, _)
SeqsUpTo(S, n) ==
    IF n = 0 THEN { << >> }
    ELSE LET shorter == SeqsUpTo(S, n - 1)
         IN  shorter \cup { Append(s, x) : s \in { t \in shorter : Len(t) = n - 1 }, x \in S }

Count(s, x) == Cardinality({ i \in DOMAIN s : s[i] = x })

(***************************************************************************)
(* Part I.  fem_simulation/fem.py                                          *)
(***************************************************************************)
\* Bound: longest Vtip_list explored.
MaxVtipLen == 3

\* Tip voltages explored [mV]: 0, +-4 mV (which print as 0.00 / -0.00) and +-1 V.
VtipValues == { -1000, -4, 0, 4, 1000 }

\* n_hmtp_steps = 10
n_hmtp_steps == 10

\* np.sort: ascending insertion of x into the ascending sequence s.
RECURSIVE Insert(_, _)
Insert(s, x) ==
    IF s = << >> THEN << x >>
    ELSE IF x <= Head(s) THEN << x >> \o s
    ELSE << Head(s) >> \o Insert(Tail(s), x)

RECURSIVE SortAsc(_)
SortAsc(s) == IF s = << >> THEN << >> ELSE Insert(SortAsc(Tail(s)), Head(s))

Reverse(s) == [ i \in 1..Len(s) |-> s[Len(s) + 1 - i] ]

\* vtip_array > 0, vtip_array < 0
IsPositive(v) == v > 0
IsNonPositive(v) == v <= 0
IsNegative(v) == v < 0

\* has_zero = 0.0 in set(siml.Vtip_list)
HasZeroAlways(list) == TRUE
has_zero(list) == 0 \in Range(list)

\* positive = np.sort(vtip_array[vtip_array > 0])
PositiveUnsorted(list) == SelectSeq(list, IsPositive)
positive(list) == SortAsc(SelectSeq(list, IsPositive))

\* negative = np.sort(vtip_array[vtip_array < 0])[::-1]
NegativeAscending(list) == SortAsc(SelectSeq(list, IsNegative))
negative(list) == Reverse(SortAsc(SelectSeq(list, IsNegative)))

\* f"Vtip_{Vtip:.2f}V": the sign and the value rounded to 0.01 V.  A negative
\* value that rounds to zero keeps its sign ("-0.00").  No explored value lies
\* on a rounding tie.
Fmt(v) == [ neg |-> v < 0, centi |-> (Abs(v) + 5) \div 10 ]

\* The GridFunction right after construction: all zero.
UInit == [ bc |-> 0, kind |-> "init", v |-> 0, h |-> 0 ]

\* No vector yet (u_zero before the snapshot, cur_from before the first solve).
UNone == [ bc |-> 0, kind |-> "none", v |-> 0, h |-> 0 ]

\* u.Set(Vtip / kT, definedon = tip): the Dirichlet value of the tip.
SetBC(uu, v) == [ uu EXCEPT !.bc = v ]

\* ng.solvers.Newton converged: u is the solution of the problem with tip
\* voltage uu.bc and homotopy level h (tenths).
Converged(uu, h) == [ bc |-> uu.bc, kind |-> "conv", v |-> uu.bc, h |-> h ]

\* ng.solvers.Newton did not converge: u holds the last iterate.
Diverged(uu, h) == [ bc |-> uu.bc, kind |-> "div", v |-> uu.bc, h |-> h ]

\* u.vec.data = u_zero
KeepCurrent(uu, uz) == uu
Restored(uu, uz) == uz

\* for step in range(n_hmtp_steps + 1)
HmtpRangeFromOne == 1..n_hmtp_steps
HmtpRangeExclusive == 0..(n_hmtp_steps - 1)
HmtpRange == 0..n_hmtp_steps

\* The voltage and the save flag of the solve_and_save call at position fpc/idx.
CurV == IF fpc = "zero" THEN 0
        ELSE IF fpc = "positive" THEN positive(Vtip_list)[idx]
        ELSE negative(Vtip_list)[idx]

CurSave == IF fpc = "zero" THEN has_zero(Vtip_list) ELSE TRUE

InSolve == fpc \in { "zero", "positive", "negative" }

FemInit ==
    /\ Vtip_list \in SeqsUpTo(VtipValues, MaxVtipLen)
    /\ fpc = "zero"
    /\ idx = 0
    /\ npc = "idle"
    /\ step = 0
    /\ u = UInit
    /\ u_zero = UNone
    /\ hmtp_charge = 0
    /\ hmtp_sigma = 0
    /\ saves = << >>
    /\ solves = << >>
    /\ cur_from = UNone
    /\ saves_before = << >>
    /\ newton_log = << >>
    /\ n_snapshot = 0
    /\ n_restore = 0

\* Where run_fem continues after the solve at fpc/idx returned.
AfterSolve ==
    IF fpc = "zero" THEN [ pc |-> "snapshot", i |-> 0 ]
    ELSE IF fpc = "positive"
         THEN IF idx < Len(positive(Vtip_list)) THEN [ pc |-> "positive", i |-> idx + 1 ]
              ELSE [ pc |-> "restore", i |-> 0 ]
    ELSE IF idx < Len(negative(Vtip_list)) THEN [ pc |-> "negative", i |-> idx + 1 ]
         ELSE [ pc |-> "done", i |-> 0 ]

\* _solve_newton returned: the rest of solve_and_save (if save: ... _save_potential)
\* and the step of run_fem to the next statement.
Returned(unew, ufrom) ==
    /\ u' = unew
    /\ solves' = Append(solves, [ v |-> CurV, from |-> ufrom, save |-> CurSave,
                                  result |-> unew ])
    /\ saves' = IF CurSave
                THEN Append(saves, [ dir |-> Fmt(CurV), v |-> CurV, data |-> unew ])
                ELSE saves
    /\ fpc' = AfterSolve.pc
    /\ idx' = AfterSolve.i
    /\ npc' = "idle"
    /\ step' = 0

\* solve_and_save up to the first Newton call of _solve_newton: boundary
\* values, both homotopy parameters to 1, Newton.  It either converges (return)
\* or the homotopy loop is entered.
SolveDirect ==
    /\ InSolve
    /\ npc = "idle"
    /\ cur_from' = u
    /\ saves_before' = saves
    /\ hmtp_charge' = 10
    /\ hmtp_sigma' = 10
    /\ \E ok \in BOOLEAN :
          /\ newton_log' = << [ h |-> 10, ok |-> ok, homotopy |-> FALSE ] >>
          /\ IF ok
             THEN Returned(Converged(SetBC(u, CurV), 10), u)
             ELSE /\ u' = Diverged(SetBC(u, CurV), 10)
                  /\ npc' = "hmtp"
                  /\ step' = CHOOSE s \in HmtpRange : \A t \in HmtpRange : s <= t
                  /\ UNCHANGED << fpc, idx, saves, solves >>
    /\ UNCHANGED << Vtip_list, u_zero, n_snapshot, n_restore >>
    /\ UNCHANGED arbVars
    /\ UNCHANGED instVars
    /\ UNCHANGED uiVars
    /\ UNCHANGED entryVars

\* else: logger.error(...); raise RuntimeError(...): nothing catches it, run_fem
\* and the process end here.
HomotopyFailedContinue ==
    IF step + 1 \in HmtpRange
    THEN /\ u' = Diverged(u, step)
         /\ step' = step + 1
         /\ UNCHANGED << fpc, idx, npc, saves, solves >>
    ELSE Returned(Diverged(u, step), cur_from)
HomotopyFailed ==
    /\ u' = Diverged(u, step)
    /\ fpc' = "error"
    /\ UNCHANGED << idx, npc, step, saves, solves >>

\* One pass of the homotopy loop: set both parameters to step / n_hmtp_steps,
\* Newton from the current u; raise RuntimeError if it does not converge.
HomotopyStep ==
    /\ InSolve
    /\ npc = "hmtp"
    /\ step \in HmtpRange
    /\ hmtp_charge' = step
    /\ hmtp_sigma' = step
    /\ \E ok \in BOOLEAN :
          /\ newton_log' = Append(newton_log, [ h |-> step, ok |-> ok, homotopy |-> TRUE ])
          /\ IF ok
             THEN IF step + 1 \in HmtpRange
                  THEN /\ u' = Converged(u, step)
                       /\ step' = step + 1
                       /\ UNCHANGED << fpc, idx, npc, saves, solves >>
                  ELSE Returned(Converged(u, step), cur_from)
             ELSE HomotopyFailed
    /\ UNCHANGED << Vtip_list, u_zero, cur_from, saves_before, n_snapshot, n_restore >>
    /\ UNCHANGED arbVars
    /\ UNCHANGED instVars
    /\ UNCHANGED uiVars
    /\ UNCHANGED entryVars

\* u_zero = u.vec.CreateVector(); u_zero.data = u.vec, then the head of the
\* positive loop.
Snapshot ==
    /\ fpc = "snapshot"
    /\ u_zero' = u
    /\ n_snapshot' = n_snapshot + 1
    /\ IF positive(Vtip_list) # << >>
       THEN fpc' = "positive" /\ idx' = 1
       ELSE fpc' = "restore" /\ idx' = 0
    /\ UNCHANGED << Vtip_list, npc, step, u, hmtp_charge, hmtp_sigma, saves, solves,
                    cur_from, saves_before, newton_log, n_restore >>
    /\ UNCHANGED arbVars
    /\ UNCHANGED instVars
    /\ UNCHANGED uiVars
    /\ UNCHANGED entryVars

\* if len(negative) > 0: u.vec.data = u_zero, then the head of the negative loop.
Restore ==
    /\ fpc = "restore"
    /\ IF Len(negative(Vtip_list)) > 0
       THEN /\ u' = Restored(u, u_zero)
            /\ n_restore' = n_restore + 1
            /\ fpc' = "negative"
            /\ idx' = 1
       ELSE /\ fpc' = "done"
            /\ UNCHANGED << u, n_restore, idx >>
    /\ UNCHANGED << Vtip_list, npc, step, u_zero, hmtp_charge, hmtp_sigma, saves, solves,
                    cur_from, saves_before, newton_log, n_snapshot >>
    /\ UNCHANGED arbVars
    /\ UNCHANGED instVars
    /\ UNCHANGED uiVars
    /\ UNCHANGED entryVars

FemNext ==
    \/ SolveDirect
    \/ HomotopyStep
    \/ Snapshot
    \/ Restore

(***************************************************************************)
(* Part I claims                                                           *)
(***************************************************************************)
\* The last solve_and_save call returned and no other has started since.
SolveReturned == npc = "idle" /\ fpc # "error" /\ newton_log # << >>

IsFullSolution(uu, v) == uu.kind = "conv" /\ uu.v = v /\ uu.h = n_hmtp_steps

\* C1: when Vtip_list holds a negative voltage, u is reset to the snapshot taken
\* right after the zero-bias solve before the first negative voltage is solved:
\* the first negative solve starts from the converged 0 V state, not from what
\* the last positive solve left; the snapshot is taken exactly once (once the
\* zero-bias solve has returned) and restored at most once per run.
C1_RestoreBeforeNegatives ==
    /\ n_snapshot <= 1
    /\ n_restore <= 1
    /\ (fpc \in { "positive", "restore", "negative", "done" }) => n_snapshot = 1
    /\ n_snapshot = 1 => (u_zero = solves[1].result /\ IsFullSolution(u_zero, 0))
    /\ (fpc \in { "negative", "done" } /\ negative(Vtip_list) # << >>) => n_restore = 1
    /\ (fpc = "negative" /\ idx = 1 /\ npc = "idle") => u = u_zero
    /\ (fpc = "negative" /\ idx = 1 /\ npc = "hmtp") => cur_from = u_zero
    /\ \A i \in DOMAIN solves :
          (solves[i].v < 0 /\ solves[i - 1].v >= 0)
             => (solves[i].from = u_zero /\ solves[i].from = solves[1].result)

C1_Witness ==
    /\ fpc = "done"
    /\ positive(Vtip_list) # << >>
    /\ negative(Vtip_list) # << >>
    /\ n_restore = 1
    /\ \E i \in DOMAIN solves : solves[i].v < 0 /\ solves[i - 1].v > 0

\* C2: run_fem solves Vtip = 0 before any other bias point, whether or not 0 is
\* in Vtip_list, and the 0 V solution is written to its output directory if and
\* only if 0 is an element of Vtip_list.
C2_ZeroFirst ==
    /\ solves # << >> => (solves[1].v = 0 /\ solves[1].from = UInit)
    /\ (solves = << >> /\ newton_log # << >>) => u.bc = 0
    /\ solves = << >> => saves = << >>
    /\ solves # << >> =>
          ((\E i \in DOMAIN saves : saves[i].v = 0 /\ saves[i].dir = Fmt(0)
                                    /\ saves[i].data = solves[1].result)
             <=> 0 \in Range(Vtip_list))

C2_Witness ==
    /\ fpc = "done"
    /\ 0 \notin Range(Vtip_list)
    /\ Len(solves) >= 2
    /\ Len(saves) = Len(solves) - 1

\* C3: all strictly positive requested voltages are solved in ascending order,
\* then all strictly negative ones closest to zero first; every positive solve
\* precedes every negative solve; each solve other than the first of its branch
\* starts from the converged state of the solve right before it.
C3_SweepOrder ==
    /\ \A i, j \in DOMAIN solves :
          (1 < i /\ i < j) =>
             /\ solves[i].v # 0 /\ solves[j].v # 0
             /\ (solves[i].v > 0 /\ solves[j].v > 0) => solves[i].v <= solves[j].v
             /\ (solves[i].v < 0 /\ solves[j].v < 0) => solves[i].v >= solves[j].v
             /\ ~ (solves[i].v < 0 /\ solves[j].v > 0)
    /\ \A i \in DOMAIN solves :
          (i > 2 /\ (solves[i].v > 0 <=> solves[i - 1].v > 0))
             => /\ solves[i].from = solves[i - 1].result
                /\ IsFullSolution(solves[i].from, solves[i - 1].v)
    /\ fpc = "done" =>
          \A x \in VtipValues \ { 0 } :
             Cardinality({ i \in DOMAIN solves : i > 1 /\ solves[i].v = x })
                = Count(Vtip_list, x)

C3_Witness ==
    /\ fpc = "done"
    /\ Len(solves) = 4
    /\ solves[2].v > 0
    /\ solves[3].v < 0
    /\ solves[4].v < solves[3].v

\* C4: when run_fem completes without error, a directory Vtip_{v:.2f}V has been
\* written for every v in Vtip_list and for no voltage outside it, and the
\* zero-bias problem has been solved exactly once and persisted at most once
\* (exactly once when 0 is requested), also for lists mixing 0 with positive and
\* negative values.
C4_OutputsComplete ==
    fpc = "done" =>
       /\ \A v \in Range(Vtip_list) :
             \E i \in DOMAIN saves : saves[i].v = v /\ saves[i].dir = Fmt(v)
       /\ \A i \in DOMAIN saves : saves[i].v \in Range(Vtip_list)
       /\ { saves[i].dir : i \in DOMAIN saves } = { Fmt(v) : v \in Range(Vtip_list) }
       /\ Cardinality({ i \in DOMAIN solves : solves[i].v = 0 }) = 1
       /\ Cardinality({ i \in DOMAIN saves : saves[i].v = 0 })
             = IF 0 \in Range(Vtip_list) THEN 1 ELSE 0

C4_Witness ==
    /\ fpc = "done"
    /\ 0 \in Range(Vtip_list)
    /\ positive(Vtip_list) # << >>
    /\ negative(Vtip_list) # << >>
    /\ Len(saves) = 3

\* The first Newton call of a bias point runs with both parameters at 1; if it
\* converges no homotopy step follows.
DirectAttemptFirst ==
    newton_log # << >> =>
       /\ newton_log[1].h = n_hmtp_steps
       /\ ~ newton_log[1].homotopy
       /\ \A i \in DOMAIN newton_log : i > 1 => newton_log[i].homotopy
       /\ newton_log[1].ok => Len(newton_log) = 1
       /\ hmtp_charge = newton_log[Len(newton_log)].h
       /\ hmtp_sigma = newton_log[Len(newton_log)].h

\* C5 as stated: a bias point is first attempted with both homotopy parameters
\* at 1; if that fails the fallback runs exactly 10 steps, step i (i = 1..10)
\* setting both parameters to i/10, with success declared after step 10.
C5_TenStepsFromOne ==
    /\ DirectAttemptFirst
    /\ \A i \in DOMAIN newton_log : i > 1 => newton_log[i].h = i - 1
    /\ (SolveReturned /\ Len(newton_log) > 1) => Len(newton_log) = 1 + n_hmtp_steps

\* C5 (amended): a bias point is first attempted with both homotopy parameters
\* at 1; if that converges the solve succeeds with no homotopy step, and if it
\* fails the fallback runs n_hmtp_steps + 1 = 11 Newton solves, step i
\* (i = 0..10) setting both parameters to i/10 and re-running Newton from the
\* current state, with success declared after step 10 converges.
C5_ElevenStepsFromZero ==
    /\ DirectAttemptFirst
    /\ \A i \in DOMAIN newton_log : i > 1 => newton_log[i].h = i - 2
    /\ \A i \in DOMAIN newton_log : (1 < i /\ i < Len(newton_log)) => newton_log[i].ok
    /\ (SolveReturned /\ Len(newton_log) > 1) =>
          /\ Len(newton_log) = n_hmtp_steps + 2
          /\ ~ newton_log[1].ok
          /\ newton_log[Len(newton_log)].ok
          /\ newton_log[Len(newton_log)].h = n_hmtp_steps
          /\ IsFullSolution(solves[Len(solves)].result, solves[Len(solves)].v)

C5_Witness ==
    /\ SolveReturned
    /\ Len(newton_log) = n_hmtp_steps + 2
    /\ newton_log[2].h = 0
    /\ hmtp_charge = n_hmtp_steps

\* C6: if a homotopy step fails to converge, run_fem ends with an error there:
\* no later homotopy step runs, no later voltage is solved, nothing is persisted
\* for the failing voltage, and the directories written before stay as they were.
C6_FatalOnHomotopyFailure ==
    /\ \A i \in DOMAIN newton_log :
          (newton_log[i].homotopy /\ ~ newton_log[i].ok)
             => (fpc = "error" /\ i = Len(newton_log))
    /\ fpc = "error" =>
          /\ ~ ENABLED FemNext
          /\ newton_log # << >>
          /\ newton_log[Len(newton_log)].homotopy
          /\ ~ newton_log[Len(newton_log)].ok
          /\ saves = saves_before
          /\ \A i \in DOMAIN solves : solves[i].result # u
          /\ Len(solves) < 1 + Len(positive(Vtip_list)) + Len(negative(Vtip_list))

C6_Witness ==
    /\ fpc = "error"
    /\ Len(saves) >= 1
    /\ Len(solves) = 2
    /\ Len(Vtip_list) = 3
    /\ Len(newton_log) > 3

(***************************************************************************)
(* Part II.  pulse_control/core.py, pulse_control/config.py                *)
(***************************************************************************)
\* Bound: largest resolution_n explored (1..MaxResolution).
MaxResolution == 2

\* Bound: for base_points <= 0 the condition base_points * k < 320 of the first
\* while loop holds for every k, and k is not read elsewhere; k is then counted
\* up to MaxK and kept in MaxK..MaxK+1 from there on.
MaxK == 3

\* Saturation value of SatMul, above every limit a product is compared with.
Big == 1073741824

Sign(x) == IF x < 0 THEN -1 ELSE IF x > 0 THEN 1 ELSE 0

\* a * b, saturated at +-Big (Python multiplies without overflow; every use
\* compares the product with a number below Big).
SatMul(a, b) ==
    IF a = 0 \/ b = 0 THEN 0
    ELSE IF Abs(a) > Big \div Abs(b) THEN Sign(a) * Sign(b) * Big
    ELSE a * b

\* Python round(a / b), b # 0: to the nearest integer, ties to the even one.
RoundHalfEven(a, b) ==
    LET n == IF b < 0 THEN -a ELSE a
        d == Abs(b)
        q == n \div d
        r == n % d
    IN  IF 2 * r < d THEN q
        ELSE IF 2 * r > d THEN q + 1
        ELSE IF q % 2 = 0 THEN q ELSE q + 1

\* Python a // b, b # 0
FloorDiv(a, b) == IF b < 0 THEN (-a) \div (-b) ELSE a \div b

\* math.gcd
RECURSIVE Gcd(_, _)
Gcd(a, b) == IF b = 0 THEN Abs(a) ELSE Gcd(Abs(b), Abs(a) % Abs(b))

\* ps_period = round(period * 1e12), period = 1.0 / frequency, frequency in MHz.
PsPerMicrosecond == 1000000
PsPeriod(f) == RoundHalfEven(PsPerMicrosecond, f)

\* ps_widths = [round(w * 1e12) for w in widths], w in half picoseconds.
PsWidth(hw) == RoundHalfEven(hw, 2)

\* g = ps_period; for pw in ps_widths: g = math.gcd(g, pw)
RECURSIVE GcdWidths(_, _)
GcdWidths(acc, ws) ==
    IF ws = << >> THEN acc ELSE GcdWidths(Gcd(acc, PsWidth(Head(ws))), Tail(ws))

GcdPeriodOnly(p, ws) == p
GcdAll(p, ws) == GcdWidths(p, ws)

\* 81180A limits as the code writes them: 320 points minimum, steps of 32,
\* 10 MSa/s .. 4.2 GSa/s (sample rates in MSa/s).
MinSegment == 320
SegmentStep == 32
MinSampleRate == 10
MaxSampleRate == 4200

\* while pts % 32 != 0
AlignedAlways(p) == TRUE
Aligned(p) == p % SegmentStep = 0

\* sample_rate = 1.0 / (period / points_per_period) = points * frequency [MSa/s]
SampleRate(points, f) == SatMul(points, f)

\* round(x, 10) of a width in seconds: to the nearest 100 ps = 200 half ps.
HalfPsPerDecimal10 == 200
Round10(hw) == HalfPsPerDecimal10 * RoundHalfEven(hw, HalfPsPerDecimal10)

\* _generate_widths(start, stop, step), step # 0
GenerateWidths(start, stop, wstep) ==
    LET n == RoundHalfEven(stop - start, wstep) + 1
    IN  [ i \in 1..n |-> Round10(start + (i - 1) * wstep) ]

\* The widths both validate() and the caller of setup_arbitrary pass on.
WidthsOf(c) ==
    IF c.kind = "sweep" THEN GenerateWidths(c.width_start, c.width_stop, c.width_step)
    ELSE << c.pulse_width >>

\* dcycle = width * frequency * 100 [%], width in half ps, frequency in MHz:
\* dcycle = hw * f / 20000.
DutyOutOfRange(hw, f) == SatMul(hw, f) < 2000 \/ SatMul(hw, f) > 1998000

\* BaseConfig._validate_common
CommonErrors(c) ==
    { e \in { "frequency", "trigger_delay_negative", "trigger_delay_multiple",
              "amplitude", "offset" } :
        \/ e = "frequency" /\ c.frequency <= 0
        \/ e = "trigger_delay_negative" /\ c.trigger_delay < 0
        \/ e = "trigger_delay_multiple" /\ c.trigger_delay % 8 # 0
        \/ e = "amplitude" /\ (Abs(c.v_on - c.v_off) < 1 \/ Abs(c.v_on - c.v_off) > 40)
        \/ e = "offset" /\ Abs(c.v_on + c.v_off) > 60 }

PolarityInAnyMode(c) ==
    { e \in { "waveform_mode", "polarity" } :
        \/ e = "waveform_mode" /\ c.waveform_mode \notin { "square", "arbitrary" }
        \/ e = "polarity" /\ c.v_on < c.v_off }

\* The checks all three validate() share after the common ones.
ModeErrors(c) ==
    { e \in { "waveform_mode", "polarity" } :
        \/ e = "waveform_mode" /\ c.waveform_mode \notin { "square", "arbitrary" }
        \/ e = "polarity" /\ c.waveform_mode = "square" /\ c.v_on < c.v_off }

\* PulseConfig.validate before the arbitrary-mode block
PulseErrors(c) ==
    { e \in { "pulse_width", "duty" } :
        \/ e = "pulse_width" /\ c.pulse_width <= 0
        \/ e = "duty" /\ c.frequency > 0 /\ c.pulse_width > 0
                      /\ DutyOutOfRange(c.pulse_width, c.frequency) }

\* SweepConfig.validate before the arbitrary-mode block
SweepErrors(c) ==
    { e \in { "width_start", "width_stop", "width_step", "wait_time", "settling_time",
              "trigger_delay_stop_negative", "trigger_delay_stop_multiple",
              "delay_interp", "duty_start", "duty_stop" } :
        \/ e = "width_start" /\ c.width_start <= 0
        \/ e = "width_stop" /\ c.width_stop <= 0
        \/ e = "width_step" /\ c.width_step <= 0
        \/ e = "wait_time" /\ c.wait_time < 0
        \/ e = "settling_time" /\ c.settling_time < 0
        \/ e = "trigger_delay_stop_negative"
              /\ c.trigger_delay_stop.set /\ c.trigger_delay_stop.val < 0
        \/ e = "trigger_delay_stop_multiple"
              /\ c.trigger_delay_stop.set /\ c.trigger_delay_stop.val % 8 # 0
        \/ e = "delay_interp" /\ c.delay_interp \notin { "linear", "inverse_width" }
        \/ e = "duty_start" /\ DutyOutOfRange(c.width_start, c.frequency)
        \/ e = "duty_stop" /\ DutyOutOfRange(c.width_stop, c.frequency) }

\* DelaySweepConfig.validate before the arbitrary-mode block
DelayErrors(c) ==
    { e \in { "pulse_width", "duty", "delay_start_negative", "delay_stop_negative",
              "delay_step", "delay_start_multiple", "delay_stop_multiple",
              "delay_step_multiple", "wait_time", "settling_time" } :
        \/ e = "pulse_width" /\ c.pulse_width <= 0
        \/ e = "duty" /\ c.frequency > 0 /\ c.pulse_width > 0
                      /\ DutyOutOfRange(c.pulse_width, c.frequency)
        \/ e = "delay_start_negative" /\ c.delay_start < 0
        \/ e = "delay_stop_negative" /\ c.delay_stop < 0
        \/ e = "delay_step" /\ c.delay_step <= 0
        \/ e = "delay_start_multiple" /\ c.delay_start % 8 # 0
        \/ e = "delay_stop_multiple" /\ c.delay_stop % 8 # 0
        \/ e = "delay_step_multiple" /\ c.delay_step % 8 # 0
        \/ e = "wait_time" /\ c.wait_time < 0
        \/ e = "settling_time" /\ c.settling_time < 0 }

BasicErrors(c) ==
    CommonErrors(c) \cup ModeErrors(c) \cup
       (IF c.kind = "pulse" THEN PulseErrors(c)
        ELSE IF c.kind = "sweep" THEN SweepErrors(c)
        ELSE DelayErrors(c))

\* The three range checks of the arbitrary-mode block, on what the calculator
\* returned; "arbitrary_parameter" when it raised ValueError.
RangeErrors(r) ==
    IF r.status = "ValueError" THEN { "arbitrary_parameter" }
    ELSE { e \in { "sample_rate", "segment_short", "segment_multiple" } :
             \/ e = "sample_rate" /\ (r.sample_rate < MinSampleRate
                                      \/ r.sample_rate > MaxSampleRate)
             \/ e = "segment_short" /\ r.points < MinSegment
             \/ e = "segment_multiple" /\ r.points % SegmentStep # 0 }

\* ---- configurations explored -------------------------------------------
Frequencies == { -10, 0, 1, 3, 10, 3000000 }                     \* MHz
Voltages == { << 0, -10 >>, << -10, 0 >>, << 0, 0 >>, << 50, 30 >> }  \* 0.1 V
TriggerDelays == { 0, 8, -4 }
WaveformModes == { "square", "arbitrary", "sine" }
PulseWidths == { 0, 4000, 20000, 20001, 180000 }                 \* half ps
SweepRanges ==
    { << 20000, 40000, 10000 >>, << 20000, 40000, 10060 >>, << 20000, 40000, 0 >>,
      << 20000, 40000, -10000 >>, << 20000, 20000, 10000 >> }    \* half ps
SweepControls ==
    { [ wait_time |-> 1, settling_time |-> 0,
        trigger_delay_stop |-> [ set |-> FALSE, val |-> 0 ], delay_interp |-> "linear" ],
      [ wait_time |-> 1, settling_time |-> 0,
        trigger_delay_stop |-> [ set |-> TRUE, val |-> 16 ],
        delay_interp |-> "inverse_width" ],
      [ wait_time |-> -1, settling_time |-> -1,
        trigger_delay_stop |-> [ set |-> TRUE, val |-> -4 ], delay_interp |-> "cubic" ] }
DelayRanges == { << 0, 16, 8 >>, << 0, 24, 16 >>, << 16, 0, 8 >>, << -4, -8, 0 >> }

CommonConfigs ==
    { [ frequency |-> f, v_on |-> vv[1], v_off |-> vv[2], trigger_delay |-> td,
        resolution_n |-> n, waveform_mode |-> m ] :
        f \in Frequencies, vv \in Voltages, td \in TriggerDelays,
        n \in 1..MaxResolution, m \in WaveformModes }

Configs ==
    { [ kind |-> "pulse", frequency |-> b.frequency, v_on |-> b.v_on, v_off |-> b.v_off,
        trigger_delay |-> b.trigger_delay, resolution_n |-> b.resolution_n,
        waveform_mode |-> b.waveform_mode, pulse_width |-> w ] :
        b \in CommonConfigs, w \in PulseWidths }
    \cup
    { [ kind |-> "sweep", frequency |-> b.frequency, v_on |-> b.v_on, v_off |-> b.v_off,
        trigger_delay |-> b.trigger_delay, resolution_n |-> b.resolution_n,
        waveform_mode |-> b.waveform_mode,
        width_start |-> r[1], width_stop |-> r[2], width_step |-> r[3],
        wait_time |-> sc.wait_time, settling_time |-> sc.settling_time,
        trigger_delay_stop |-> sc.trigger_delay_stop, delay_interp |-> sc.delay_interp ] :
        b \in CommonConfigs, r \in SweepRanges, sc \in SweepControls }
    \cup
    { [ kind |-> "delay", frequency |-> b.frequency, v_on |-> b.v_on, v_off |-> b.v_off,
        trigger_delay |-> b.trigger_delay, resolution_n |-> b.resolution_n,
        waveform_mode |-> b.waveform_mode, pulse_width |-> w,
        delay_start |-> d[1], delay_stop |-> d[2], delay_step |-> d[3],
        wait_time |-> 1, settling_time |-> 0 ] :
        b \in CommonConfigs, w \in PulseWidths, d \in DelayRanges }

\* Inputs of the calculator when it is applied on its own.
CalcWidthLists ==
    { << >>, << 0 >>, << 1 >>, << 2 >>, << 4000 >>, << 20000 >>, << 20001 >>, << -20000 >>,
      << 20000, 4000 >>, << 20000, 30000, 40000 >> }             \* half ps
CalcInputs ==
    { [ kind |-> "calc", frequency |-> f, widths |-> ws, resolution_n |-> n ] :
        f \in Frequencies, ws \in CalcWidthLists, n \in 1..MaxResolution }

NoResult == [ status |-> "none", sample_rate |-> 0, points |-> 0 ]

FemIdle ==
    /\ Vtip_list = << >>
    /\ fpc = "off"
    /\ idx = 0
    /\ npc = "idle"
    /\ step = 0
    /\ u = UInit
    /\ u_zero = UNone
    /\ hmtp_charge = 0
    /\ hmtp_sigma = 0
    /\ saves = << >>
    /\ solves = << >>
    /\ cur_from = UNone
    /\ saves_before = << >>
    /\ newton_log = << >>
    /\ n_snapshot = 0
    /\ n_restore = 0

ArbIdle ==
    /\ cfg = [ kind |-> "none" ]
    /\ apc = "off"
    /\ caller = "none"
    /\ arg_n = 0
    /\ arg_widths = << >>
    /\ ps_period = 0
    /\ g = 0
    /\ base_points = 0
    /\ k = 0
    /\ pts = 0
    /\ ret = NoResult
    /\ ret1 = NoResult
    /\ exc = "none"
    /\ errors = { }
    /\ programmed = NoResult

\* ---- the instrument ---------------------------------------------------------
\* One entry of log: a SCPI write or query, a sleep or a callback, with its
\* integer argument (0 where it has none).
Cmd(c, a) == [ cmd |-> c, arg |-> a, arg2 |-> 0 ]

\* A second argument for callback(i, total) and :TRACe:DEF seg, points.
Cmd2(c, a, b) == [ cmd |-> c, arg |-> a, arg2 |-> b ]

\* What a channel of the 81180A holds, as far as the program sets it.
ChannelReset ==
    [ output |-> "OFF", mode |-> "FIX", shape |-> "SIN", phase |-> 0, dc_offset |-> 0,
      ampl |-> 0, offs |-> 0, delay |-> 0, seg |-> 0 ]

\* The instrument as the first session finds it: reset, channel 1 selected.
InstReset == [ sel |-> 1, ch |-> [ c \in { 1, 2 } |-> ChannelReset ] ]

\* The effect of one write on the instrument: :INST selects the channel, every
\* other setting goes to the selected channel.
Apply(i, c) ==
    LET s == i.sel
    IN  CASE c.cmd = ":INST" -> [ i EXCEPT !.sel = c.arg ]
          [] c.cmd = ":OUTPut ON" -> [ i EXCEPT !.ch[s].output = "ON" ]
          [] c.cmd = ":OUTPut OFF" -> [ i EXCEPT !.ch[s].output = "OFF" ]
          [] c.cmd = ":FUNC:MODE USER" -> [ i EXCEPT !.ch[s].mode = "USER" ]
          [] c.cmd = ":FUNCtion:SHAPe SQUare" -> [ i EXCEPT !.ch[s].shape = "SQU" ]
          [] c.cmd = ":FUNCtion:SHAPe DC" -> [ i EXCEPT !.ch[s].shape = "DC" ]
          [] c.cmd = ":PHASe" -> [ i EXCEPT !.ch[s].phase = c.arg ]
          [] c.cmd = ":DC:OFFSet" -> [ i EXCEPT !.ch[s].dc_offset = c.arg ]
          [] c.cmd = ":VOLT:AMPLitude" -> [ i EXCEPT !.ch[s].ampl = c.arg ]
          [] c.cmd = ":VOLT:OFFSet" -> [ i EXCEPT !.ch[s].offs = c.arg ]
          [] c.cmd = ":TRIGger:DELay" -> [ i EXCEPT !.ch[s].delay = c.arg ]
          [] c.cmd = ":TRACe:SEL" -> [ i EXCEPT !.ch[s].seg = c.arg ]
          [] OTHER -> i

RECURSIVE ApplyAll(_, _)
ApplyAll(i, cs) == IF cs = << >> THEN i ELSE ApplyAll(Apply(i, Head(cs)), Tail(cs))

UiIdle == ui = [ tab |-> "none" ]

SessIdle == sess = [ page |-> "none" ]

CliIdle == cli = [ mode |-> "none" ]

FilesIdle == files = [ op |-> "none" ]

AuxIdle == aux = [ m |-> "none" ]

EntryIdle == SessIdle /\ CliIdle /\ FilesIdle /\ AuxIdle

InstIdle ==
    /\ channels = << >>
    /\ ch_i = 0
    /\ step_i = 0
    /\ n_ops = 0
    /\ op_start = 0
    /\ log = << >>
    /\ inst = InstReset

\* ---- _calc_arb_params, statement by statement ----------------------------
\* Where control continues when the running call returns.
ReturnPc ==
    CASE caller = "validate" -> "validate_ret"
      [] caller = "setup" -> "setup_ret"
      [] caller = "first" -> "call2"
      [] OTHER -> "done"

\* Lines 31-46: period, picosecond conversion, GCD, base_points, k = 1.
\* 1.0 / frequency raises ZeroDivisionError for frequency = 0; g = 0 raises
\* ValueError, which only validate() catches.
CalcEntry ==
    /\ apc = "calc_entry"
    /\ IF cfg.frequency = 0
       THEN /\ apc' = "raised"
            /\ exc' = "ZeroDivisionError"
            /\ UNCHANGED << ps_period, g, base_points, k, pts, ret >>
       ELSE LET p == PsPeriod(cfg.frequency)
                gg == GcdAll(p, arg_widths)
            IN  /\ ps_period' = p
                /\ g' = gg
                /\ pts' = 0
                /\ IF gg = 0
                   THEN /\ ret' = [ status |-> "ValueError", sample_rate |-> 0, points |-> 0 ]
                        /\ apc' = IF caller = "validate" THEN "validate_ret" ELSE "raised"
                        /\ exc' = IF caller = "validate" THEN exc ELSE "ValueError"
                        /\ UNCHANGED << base_points, k >>
                   ELSE /\ base_points' = FloorDiv(p, gg)
                        /\ k' = 1
                        /\ apc' = "calc_scale"
                        /\ UNCHANGED << ret, exc >>
    /\ UNCHANGED << cfg, caller, arg_n, arg_widths, ret1, errors, programmed >>
    /\ UNCHANGED femVars
    /\ UNCHANGED uiVars
    /\ UNCHANGED entryVars
    /\ UNCHANGED instVars

\* Lines 47-50: while base_points * k < 320: k += 1; then pts = base_points * k.
CalcScale ==
    /\ apc = "calc_scale"
    /\ IF base_points * k < MinSegment
       THEN /\ k' = IF base_points <= 0 /\ k > MaxK THEN MaxK ELSE k + 1
            /\ UNCHANGED << apc, pts >>
       ELSE /\ pts' = base_points * k
            /\ apc' = "calc_align"
            /\ UNCHANGED k
    /\ UNCHANGED << cfg, caller, arg_n, arg_widths, ps_period, g, base_points,
                    ret, ret1, exc, errors, programmed >>
    /\ UNCHANGED femVars
    /\ UNCHANGED uiVars
    /\ UNCHANGED entryVars
    /\ UNCHANGED instVars

\* Lines 51-63: while pts % 32 != 0: k += 1; pts = base_points * k; then
\* pts *= resolution_n, the sample rate, return.
CalcAlign ==
    /\ apc = "calc_align"
    /\ IF ~ Aligned(pts)
       THEN /\ k' = k + 1
            /\ pts' = base_points * (k + 1)
            /\ UNCHANGED << apc, ret, ret1 >>
       ELSE LET r == [ status |-> "ok",
                       sample_rate |-> SampleRate(pts * arg_n, cfg.frequency),
                       points |-> pts * arg_n ]
            IN  /\ pts' = pts * arg_n
                /\ ret' = r
                /\ ret1' = IF arg_n = 1 /\ caller # "setup" THEN r ELSE ret1
                /\ apc' = ReturnPc
                /\ UNCHANGED k
    /\ UNCHANGED << cfg, caller, arg_n, arg_widths, ps_period, g, base_points,
                    exc, errors, programmed >>
    /\ UNCHANGED femVars
    /\ UNCHANGED uiVars
    /\ UNCHANGED entryVars
    /\ UNCHANGED instVars

\* ---- the calculator applied on its own: resolution 1, then resolution_n ---
CalcInit ==
    /\ cfg \in CalcInputs
    /\ apc = "call1"
    /\ caller = "none"
    /\ arg_n = 0
    /\ arg_widths = << >>
    /\ ps_period = 0
    /\ g = 0
    /\ base_points = 0
    /\ k = 0
    /\ pts = 0
    /\ ret = NoResult
    /\ ret1 = NoResult
    /\ exc = "none"
    /\ errors = { }
    /\ programmed = NoResult

\* _calc_arb_params(frequency, widths)
Call1 ==
    /\ apc = "call1"
    /\ caller' = "first"
    /\ arg_n' = 1
    /\ arg_widths' = cfg.widths
    /\ apc' = "calc_entry"
    /\ UNCHANGED << cfg, ps_period, g, base_points, k, pts, ret, ret1, exc, errors,
                    programmed >>
    /\ UNCHANGED femVars
    /\ UNCHANGED uiVars
    /\ UNCHANGED entryVars
    /\ UNCHANGED instVars

\* _calc_arb_params(frequency, widths, resolution_n = n)
Call2 ==
    /\ apc = "call2"
    /\ caller' = "second"
    /\ arg_n' = cfg.resolution_n
    /\ arg_widths' = cfg.widths
    /\ apc' = "calc_entry"
    /\ UNCHANGED << cfg, ps_period, g, base_points, k, pts, ret, ret1, exc, errors,
                    programmed >>
    /\ UNCHANGED femVars
    /\ UNCHANGED uiVars
    /\ UNCHANGED entryVars
    /\ UNCHANGED instVars

CalcNext == Call1 \/ Call2 \/ CalcEntry \/ CalcScale \/ CalcAlign

\* ---- validate(), then the start of the output ------------------------------
CfgInit ==
    /\ cfg \in Configs
    /\ apc = "built"
    /\ caller = "none"
    /\ arg_n = 0
    /\ arg_widths = << >>
    /\ ps_period = 0
    /\ g = 0
    /\ base_points = 0
    /\ k = 0
    /\ pts = 0
    /\ ret = NoResult
    /\ ret1 = NoResult
    /\ exc = "none"
    /\ errors = { }
    /\ programmed = NoResult

\* validate() up to the call of _calc_arb_params: every check before the
\* arbitrary-mode block; in arbitrary mode _generate_widths (SweepConfig; it
\* divides by width_step) and the call with the default resolution_n = 1.
ValidateBegin ==
    /\ apc = "built"
    /\ caller' = "validate"
    /\ errors' = BasicErrors(cfg)
    /\ IF cfg.waveform_mode # "arbitrary"
       THEN /\ apc' = "validated"
            /\ UNCHANGED << arg_n, arg_widths, exc >>
       ELSE IF cfg.kind = "sweep" /\ cfg.width_step = 0
       THEN /\ apc' = "raised"
            /\ exc' = "ZeroDivisionError"
            /\ UNCHANGED << arg_n, arg_widths >>
       ELSE /\ apc' = "calc_entry"
            /\ arg_n' = 1
            /\ arg_widths' = WidthsOf(cfg)
            /\ UNCHANGED exc
    /\ UNCHANGED << cfg, ps_period, g, base_points, k, pts, ret, ret1, programmed >>
    /\ UNCHANGED femVars
    /\ UNCHANGED uiVars
    /\ UNCHANGED entryVars
    /\ UNCHANGED instVars

\* The rest of the arbitrary-mode block: the three range checks, or the
\* message of the caught ValueError; validate() returns errors.
ValidateEnd ==
    /\ apc = "validate_ret"
    /\ errors' = errors \cup RangeErrors(ret)
    /\ apc' = "validated"
    /\ UNCHANGED << cfg, caller, arg_n, arg_widths, ps_period, g, base_points, k, pts,
                    ret, ret1, exc, programmed >>
    /\ UNCHANGED femVars
    /\ UNCHANGED uiVars
    /\ UNCHANGED entryVars
    /\ UNCHANGED instVars

\* if errors: ... sys.exit(1)  (CLI); Start disabled (console).
Reject ==
    /\ apc = "validated"
    /\ errors # { }
    /\ apc' = "rejected"
    /\ UNCHANGED << cfg, caller, arg_n, arg_widths, ps_period, g, base_points, k, pts,
                    ret, ret1, exc, errors, programmed >>
    /\ UNCHANGED femVars
    /\ UNCHANGED uiVars
    /\ UNCHANGED entryVars
    /\ UNCHANGED instVars

\* Bound: operations (start, stop, DC 0V) started in one session.
MaxOps == 3

\* log' and inst' after the writes cs.
Send(cs) ==
    /\ log' = log \o cs
    /\ inst' = ApplyAll(inst, cs)

\* ampl = abs(v_on - v_off) / 2 [0.05 V]; offs = (v_on + v_off) / 4 [0.025 V]
AmplOfDifference(c) == c.v_on - c.v_off
Ampl(c) == Abs(c.v_on - c.v_off)
Offs(c) == c.v_on + c.v_off

\* dcycle = width * frequency * 100 [1/20000 %]; phase = 180 - dcycle * 1.8
\* [1e-5 degrees]
Dcycle(hw, f) == hw * f
Phase(hw, f) == 18000000 - 9 * Dcycle(hw, f)

\* The width setup() is given: config.pulse_width, config.width_start.
InitialWidth(c) == IF c.kind = "sweep" THEN c.width_start ELSE c.pulse_width

\* Channel lists an output can be started on: CH1 or CH2 (pulse), CH1, CH2 or
\* Both (sweeps); square mode is started by the command line on channel 1.
StartChannels(c) ==
    IF c.waveform_mode # "arbitrary" THEN { << 1 >> }
    ELSE IF c.kind = "pulse" THEN { << 1 >>, << 2 >> }
    ELSE { << 1 >>, << 2 >>, << 1, 2 >> }

\* Only the width sweep passes a callback to setup_arbitrary.
HasUploadCallback(c) == c.kind = "sweep"

\* Control after the output has been started on every channel.
AfterSetup(c) ==
    CASE c.kind = "sweep" -> "run_sweep"
      [] c.kind = "delay" -> "run_delay_sweep"
      [] OTHER -> "idle"

\* A validated configuration, no operation running.
Ready == apc \in { "validated", "idle" } /\ errors = { }

\* A start button or the command line with a validated configuration: the
\* channels are fixed, then setup / setup_arbitrary is called for each.
StartOutput ==
    /\ Ready
    /\ n_ops < MaxOps
    /\ \E chs \in StartChannels(cfg) : channels' = chs
    /\ ch_i' = 1
    /\ n_ops' = n_ops + 1
    /\ apc' = "setup"
    /\ exc' = "none"
    /\ UNCHANGED << cfg, caller, arg_n, arg_widths, ps_period, g, base_points, k, pts,
                    ret, ret1, errors, programmed >>
    /\ UNCHANGED << step_i, op_start, log, inst >>
    /\ UNCHANGED femVars
    /\ UNCHANGED uiVars
    /\ UNCHANGED entryVars

\* instrument.setup(config, initial_width, channel): square mode, no segment.
SetupSquare ==
    /\ apc = "setup"
    /\ cfg.waveform_mode # "arbitrary"
    /\ op_start' = Len(log)
    /\ Send(<< Cmd(":INST", channels[ch_i]),
               Cmd(":FUNCtion:SHAPe SQUare", 0),
               Cmd(":FREQuency", cfg.frequency),
               Cmd(":VOLT:AMPLitude", Ampl(cfg)),
               Cmd(":VOLT:OFFSet", Offs(cfg)),
               Cmd(":TRIGger:DELay", cfg.trigger_delay),
               Cmd(":SQUare:DCYCle", Dcycle(InitialWidth(cfg), cfg.frequency)),
               Cmd(":PHASe", Phase(InitialWidth(cfg), cfg.frequency)),
               Cmd(":OUTPut ON", 0),
               Cmd("*OPC?", 0) >>)
    /\ apc' = AfterSetup(cfg)
    /\ programmed' = [ status |-> "square", sample_rate |-> 0, points |-> 0 ]
    /\ UNCHANGED << cfg, caller, arg_n, arg_widths, ps_period, g, base_points, k, pts,
                    ret, ret1, exc, errors >>
    /\ UNCHANGED << channels, ch_i, step_i, n_ops >>
    /\ UNCHANGED femVars
    /\ UNCHANGED uiVars
    /\ UNCHANGED entryVars

\* setup_arbitrary up to
\* _calc_arb_params(config.frequency, widths, resolution_n = config.resolution_n)
ConfigResolution(c) == c.resolution_n
SetupArbitraryBegin ==
    /\ apc = "setup"
    /\ cfg.waveform_mode = "arbitrary"
    /\ op_start' = Len(log)
    /\ Send(<< Cmd(":INST", channels[ch_i]),
               Cmd(":FUNC:MODE USER", 0),
               Cmd(":TRAC:DEL:ALL", 0) >>)
    /\ caller' = "setup"
    /\ arg_n' = ConfigResolution(cfg)
    /\ arg_widths' = WidthsOf(cfg)
    /\ apc' = "calc_entry"
    /\ UNCHANGED << cfg, ps_period, g, base_points, k, pts, ret, ret1, exc, errors,
                    programmed >>
    /\ UNCHANGED << channels, ch_i, step_i, n_ops >>
    /\ UNCHANGED femVars
    /\ UNCHANGED uiVars
    /\ UNCHANGED entryVars

\* w(f":FREQ:RAST {sample_rate}"); the loop over the widths starts.
SetupArbitraryEnd ==
    /\ apc = "setup_ret"
    /\ programmed' = [ status |-> "sent", sample_rate |-> ret.sample_rate,
                       points |-> ret.points ]
    /\ Send(<< Cmd(":FREQ:RAST", ret.sample_rate) >>)
    /\ step_i' = 0
    /\ apc' = "upload"
    /\ UNCHANGED << cfg, caller, arg_n, arg_widths, ps_period, g, base_points, k, pts,
                    ret, ret1, exc, errors >>
    /\ UNCHANGED << channels, ch_i, n_ops, op_start >>
    /\ UNCHANGED femVars
    /\ UNCHANGED uiVars
    /\ UNCHANGED entryVars

\* One pass of `for i, width in enumerate(widths)`: define segment i + 1,
\* select it, upload it, wait for *OPC?, callback(i, len(widths)).
UploadCommands(i, total, points, with_callback) ==
    << Cmd2(":TRACe:DEF", i + 1, points),
       Cmd(":TRACe:SEL", i + 1),
       Cmd(":TRACe:DATA", i + 1),
       Cmd("*OPC?", 0) >>
    \o (IF with_callback THEN << Cmd2("callback", i, total) >> ELSE << >>)

UploadSegment ==
    /\ apc = "upload"
    /\ step_i < Len(arg_widths)
    /\ Send(UploadCommands(step_i, Len(arg_widths), ret.points, HasUploadCallback(cfg)))
    /\ step_i' = step_i + 1
    /\ UNCHANGED arbVars
    /\ UNCHANGED << channels, ch_i, n_ops, op_start >>
    /\ UNCHANGED femVars
    /\ UNCHANGED uiVars
    /\ UNCHANGED entryVars

\* The commands of setup_arbitrary after the loop.
FinishOutputFirst(c) ==
    << Cmd(":OUTPut ON", 0),
       Cmd(":TRACe:SEL", 1),
       Cmd(":VOLT:AMPLitude", Ampl(c)),
       Cmd(":VOLT:OFFSet", Offs(c)),
       Cmd(":TRIGger:DELay", c.trigger_delay),
       Cmd("*OPC?", 0) >>
FinishCommands(c) ==
    << Cmd(":TRACe:SEL", 1),
       Cmd(":VOLT:AMPLitude", Ampl(c)),
       Cmd(":VOLT:OFFSet", Offs(c)),
       Cmd(":TRIGger:DELay", c.trigger_delay),
       Cmd(":OUTPut ON", 0),
       Cmd("*OPC?", 0) >>

\* Select segment 1, amplitude, offset, trigger delay, output ON, *OPC?;
\* setup_arbitrary returns, and the caller goes to its next channel.
SetupArbitraryFinish ==
    /\ apc = "upload"
    /\ step_i = Len(arg_widths)
    /\ Send(FinishCommands(cfg))
    /\ IF ch_i < Len(channels)
       THEN /\ ch_i' = ch_i + 1
            /\ apc' = "setup"
       ELSE /\ ch_i' = ch_i
            /\ apc' = AfterSetup(cfg)
    /\ UNCHANGED << cfg, caller, arg_n, arg_widths, ps_period, g, base_points, k, pts,
                    ret, ret1, exc, errors, programmed >>
    /\ UNCHANGED << channels, step_i, n_ops, op_start >>
    /\ UNCHANGED femVars
    /\ UNCHANGED uiVars
    /\ UNCHANGED entryVars

\* The attributes a SweepConfig instance has (the dataclass fields of
\* BaseConfig and SweepConfig); reading any other raises AttributeError.
HasAttr(c, a) == a \in DOMAIN c

\* run_sweep, lines 316-331: channels, widths, total, delay_start,
\* delay_stop, sweep_delay, then _exp = config.delay_exponent.  SweepConfig
\* has no field delay_exponent (it has delay_interp), so the read raises
\* AttributeError before the first wait; no caller catches it to go on with
\* the sweep, and teardown is skipped.
RunSweepBegin ==
    /\ apc = "run_sweep"
    /\ op_start' = Len(log)
    /\ IF HasAttr(cfg, "delay_exponent")
       THEN /\ apc' = "sweep_loop"
            /\ UNCHANGED << exc, caller >>
       ELSE /\ apc' = "idle"
            /\ exc' = "AttributeError"
            /\ caller' = "run_sweep"
    /\ step_i' = 0
    /\ UNCHANGED << cfg, arg_n, arg_widths, ps_period, g, base_points, k, pts,
                    ret, ret1, errors, programmed >>
    /\ UNCHANGED << channels, ch_i, n_ops, log, inst >>
    /\ UNCHANGED femVars
    /\ UNCHANGED uiVars
    /\ UNCHANGED entryVars

GenerateDelaysExclusive(start, stop, dstep) ==
    LET n == FloorDiv(stop - start, dstep)
    IN  [ i \in 1..n |-> start + (i - 1) * dstep ]

\* _generate_delays(start, stop, step), step # 0
GenerateDelays(start, stop, dstep) ==
    LET n == FloorDiv(stop - start, dstep) + 1
    IN  [ i \in 1..n |-> start + (i - 1) * dstep ]

DelaysOf(c) == GenerateDelays(c.delay_start, c.delay_stop, c.delay_step)

\* run_delay_sweep, lines 409-413: delays, total.
RunDelaySweepBegin ==
    /\ apc = "run_delay_sweep"
    /\ op_start' = Len(log)
    /\ step_i' = 0
    /\ caller' = "run_delay_sweep"
    /\ IF cfg.delay_step = 0
       THEN /\ apc' = "idle"
            /\ exc' = "ZeroDivisionError"
       ELSE /\ apc' = "delay_loop"
            /\ UNCHANGED exc
    /\ UNCHANGED << cfg, arg_n, arg_widths, ps_period, g, base_points, k, pts,
                    ret, ret1, errors, programmed >>
    /\ UNCHANGED << channels, ch_i, n_ops, log, inst >>
    /\ UNCHANGED femVars
    /\ UNCHANGED uiVars
    /\ UNCHANGED entryVars

\* instrument.set_trigger_delay(delay, channel = ch) for ch in channels
RECURSIVE SetDelayOnChannels(_, _)
SetDelayOnChannels(chs, d) ==
    IF chs = << >> THEN << >>
    ELSE << Cmd(":INST", Head(chs)), Cmd(":TRIGger:DELay", d) >>
         \o SetDelayOnChannels(Tail(chs), d)

\* One pass of `for i, delay in enumerate(delays)`: sleep, the delay on every
\* target channel, callback(i, total).
DelayStepCommands(c, chs, i) ==
    << Cmd("sleep", c.wait_time) >>
    \o SetDelayOnChannels(chs, DelaysOf(c)[i + 1])
    \o << Cmd2("callback", i, Len(DelaysOf(c))) >>

DelayStep ==
    /\ apc = "delay_loop"
    /\ step_i < Len(DelaysOf(cfg))
    /\ Send(DelayStepCommands(cfg, channels, step_i))
    /\ step_i' = step_i + 1
    /\ UNCHANGED arbVars
    /\ UNCHANGED << channels, ch_i, n_ops, op_start >>
    /\ UNCHANGED femVars
    /\ UNCHANGED uiVars
    /\ UNCHANGED entryVars

\* The final wait; run_delay_sweep returns and the caller tears down each
\* channel.
RunDelaySweepEnd ==
    /\ apc = "delay_loop"
    /\ step_i = Len(DelaysOf(cfg))
    /\ Send(<< Cmd("sleep", cfg.wait_time) >>)
    /\ apc' = "teardown"
    /\ ch_i' = 1
    /\ UNCHANGED << cfg, caller, arg_n, arg_widths, ps_period, g, base_points, k, pts,
                    ret, ret1, exc, errors, programmed >>
    /\ UNCHANGED << channels, step_i, n_ops, op_start >>
    /\ UNCHANGED femVars
    /\ UNCHANGED uiVars
    /\ UNCHANGED entryVars

\* A stop button of the pulse tab: teardown(channel = ch).
StopOutput ==
    /\ apc = "idle"
    /\ cfg.kind = "pulse"
    /\ n_ops < MaxOps
    /\ \E c \in { 1, 2 } : channels' = << c >>
    /\ ch_i' = 1
    /\ n_ops' = n_ops + 1
    /\ apc' = "teardown"
    /\ exc' = "none"
    /\ UNCHANGED << cfg, caller, arg_n, arg_widths, ps_period, g, base_points, k, pts,
                    ret, ret1, errors, programmed >>
    /\ UNCHANGED << step_i, op_start, log, inst >>
    /\ UNCHANGED femVars
    /\ UNCHANGED uiVars
    /\ UNCHANGED entryVars

\* teardown(channel)
TeardownBothChannels(c) ==
    << Cmd(":INST", c), Cmd(":OUTPut OFF", 0), Cmd(":PHASe", 0),
       Cmd(":FUNCtion:SHAPe DC", 0), Cmd(":DC:OFFSet", 0),
       Cmd(":INST", 3 - c), Cmd(":OUTPut OFF", 0) >>

TeardownCommands(c) ==
    << Cmd(":INST", c), Cmd(":OUTPut OFF", 0), Cmd(":PHASe", 0),
       Cmd(":FUNCtion:SHAPe DC", 0), Cmd(":DC:OFFSet", 0) >>

Teardown ==
    /\ apc = "teardown"
    /\ op_start' = Len(log)
    /\ Send(TeardownCommands(channels[ch_i]))
    /\ IF ch_i < Len(channels)
       THEN /\ ch_i' = ch_i + 1
            /\ UNCHANGED apc
       ELSE /\ ch_i' = ch_i
            /\ apc' = "idle"
    /\ caller' = "teardown"
    /\ UNCHANGED << cfg, arg_n, arg_widths, ps_period, g, base_points, k, pts,
                    ret, ret1, exc, errors, programmed >>
    /\ UNCHANGED << channels, step_i, n_ops >>
    /\ UNCHANGED femVars
    /\ UNCHANGED uiVars
    /\ UNCHANGED entryVars

\* set_dc_zero()
DcZeroCommands ==
    << Cmd(":INST", 1), Cmd(":OUTPut OFF", 0), Cmd(":PHASe", 0),
       Cmd(":FUNCtion:SHAPe DC", 0), Cmd(":DC:OFFSet", 0),
       Cmd(":INST", 2), Cmd(":DC:OFFSet", 0),
       Cmd(":INST", 1), Cmd("*OPC?", 0) >>

\* The DC 0V button (always visible): set_dc_zero().
SetDcZero ==
    /\ apc = "idle"
    /\ n_ops < MaxOps
    /\ n_ops' = n_ops + 1
    /\ op_start' = Len(log)
    /\ Send(DcZeroCommands)
    /\ caller' = "set_dc_zero"
    /\ exc' = "none"
    /\ UNCHANGED << cfg, apc, arg_n, arg_widths, ps_period, g, base_points, k, pts,
                    ret, ret1, errors, programmed >>
    /\ UNCHANGED << channels, ch_i, step_i >>
    /\ UNCHANGED femVars
    /\ UNCHANGED uiVars
    /\ UNCHANGED entryVars

CfgNext ==
    \/ ValidateBegin
    \/ CalcEntry
    \/ CalcScale
    \/ CalcAlign
    \/ ValidateEnd
    \/ Reject
    \/ StartOutput
    \/ SetupSquare
    \/ SetupArbitraryBegin
    \/ SetupArbitraryEnd
    \/ UploadSegment
    \/ SetupArbitraryFinish
    \/ RunSweepBegin
    \/ RunDelaySweepBegin
    \/ DelayStep
    \/ RunDelaySweepEnd
    \/ StopOutput
    \/ Teardown
    \/ SetDcZero

\* ---- the width sweep tab of the console (app.py) -----------------------------
\* Bound: saved pulse records in the session.
MaxRecords == 3

\* The dataclass fields SweepConfig.__init__ accepts (config.py: BaseConfig
\* and SweepConfig).
SweepConfigFields ==
    { "visa_address", "v_on", "v_off", "frequency", "trigger_delay", "resolution_n",
      "width_start", "width_stop", "width_step", "wait_time", "waveform_mode",
      "settling_time", "trigger_delay_stop", "delay_interp" }

\* The keyword arguments the sweep tab passes to SweepConfig(...).
SweepTabKeywords ==
    { "visa_address", "v_on", "v_off", "width_start", "width_stop", "width_step",
      "frequency", "trigger_delay", "resolution_n", "wait_time", "waveform_mode",
      "settling_time", "trigger_delay_stop", "delay_exponent", "delay_mode",
      "delay_table" }

\* Saved (pulse_width [half ps], trigger_delay) records.
PulseRecords == { [ pulse_width |-> 20000, trigger_delay |-> 0 ],
                  [ pulse_width |-> 40000, trigger_delay |-> 16 ] }

\* What one run of the script finds in the sweep tab.
SweepTabs ==
    { [ tab |-> "sweep", delay_mode |-> dm, saved_pulse_records |-> rs, parse_ok |-> ok,
        trigger_delay |-> td, trigger_delay_stop |-> ts ] :
        dm \in { "exponent", "table" }, rs \in SeqsUpTo(PulseRecords, MaxRecords),
        ok \in BOOLEAN, td \in { 0, 8 }, ts \in { 0, 16 } }

\* _delay_table of the sweep tab: the saved records in table mode when there
\* are any, else None.
DelayTable(w) ==
    IF w.delay_mode = "table" /\ w.saved_pulse_records # << >>
    THEN [ set |-> TRUE, val |-> w.saved_pulse_records ]
    ELSE [ set |-> FALSE, val |-> << >> ]

\* The object SweepConfig(...) gives when every keyword is a field.
BuiltSweepConfig(w) ==
    LET ts == IF w.delay_mode = "exponent" THEN w.trigger_delay_stop ELSE w.trigger_delay
    IN  [ kind |-> "sweep", frequency |-> 10, v_on |-> 0, v_off |-> -10,
          trigger_delay |-> w.trigger_delay, resolution_n |-> 1,
          waveform_mode |-> "arbitrary",
          width_start |-> 20000, width_stop |-> 40000, width_step |-> 10000,
          wait_time |-> 1, settling_time |-> 0,
          trigger_delay_stop |-> [ set |-> ts # w.trigger_delay, val |-> ts ],
          delay_interp |-> "linear" ]

AppInit ==
    /\ ui \in SweepTabs
    /\ cfg = [ kind |-> "none" ]
    /\ apc = "script"
    /\ caller = "none"
    /\ arg_n = 0
    /\ arg_widths = << >>
    /\ ps_period = 0
    /\ g = 0
    /\ base_points = 0
    /\ k = 0
    /\ pts = 0
    /\ ret = NoResult
    /\ ret1 = NoResult
    /\ exc = "none"
    /\ errors = { }
    /\ programmed = NoResult

\* `if not sweep_parse_errors:` ... sweep_config_built = SweepConfig(...).
\* The dataclass __init__ raises TypeError on a keyword that is not a field;
\* the script run ends there.
BuildSweepConfig ==
    /\ apc = "script"
    /\ caller' = "tab_sweep"
    /\ IF ~ ui.parse_ok
       THEN /\ apc' = "not_built"
            /\ UNCHANGED << cfg, exc >>
       ELSE IF ~ (SweepTabKeywords \subseteq SweepConfigFields)
       THEN /\ apc' = "raised"
            /\ exc' = "TypeError"
            /\ UNCHANGED cfg
       ELSE /\ apc' = "built"
            /\ cfg' = BuiltSweepConfig(ui)
            /\ UNCHANGED exc
    /\ UNCHANGED << arg_n, arg_widths, ps_period, g, base_points, k, pts, ret, ret1,
                    errors, programmed >>
    /\ UNCHANGED femVars
    /\ UNCHANGED instVars
    /\ UNCHANGED uiVars
    /\ UNCHANGED entryVars

AppNext == BuildSweepConfig

\* ---- _generate_widths applied on its own --------------------------------------
\* Positive start <= stop and step, all on the 0.1 ns grid that round(x, 10)
\* keeps [half ps].
WidthInputs ==
    { r \in { [ kind |-> "widths", width_start |-> a, width_stop |-> b, width_step |-> c ] :
                 a \in { 200, 20000, 30000 },
                 b \in { 200, 20000, 30000, 40000, 41400, 50000 },
                 c \in { 200, 6000, 10000, 12000, 16000, 50000, 100000 } } :
        r.width_start <= r.width_stop }

WidthsInit ==
    /\ cfg \in WidthInputs
    /\ apc = "call"
    /\ caller = "none"
    /\ arg_n = 0
    /\ arg_widths = << >>
    /\ ps_period = 0
    /\ g = 0
    /\ base_points = 0
    /\ k = 0
    /\ pts = 0
    /\ ret = NoResult
    /\ ret1 = NoResult
    /\ exc = "none"
    /\ errors = { }
    /\ programmed = NoResult

\* widths = _generate_widths(start, stop, step); the list is kept in
\* arg_widths, where its callers pass it on.
CallGenerateWidths ==
    /\ apc = "call"
    /\ arg_widths' = GenerateWidths(cfg.width_start, cfg.width_stop, cfg.width_step)
    /\ apc' = "done"
    /\ caller' = "_generate_widths"
    /\ UNCHANGED << cfg, arg_n, ps_period, g, base_points, k, pts, ret, ret1, exc, errors,
                    programmed >>
    /\ UNCHANGED femVars
    /\ UNCHANGED instVars
    /\ UNCHANGED uiVars
    /\ UNCHANGED entryVars

WidthsNext == CallGenerateWidths

\* ---- the command line (main.py) ------------------------------------------------
\* What one call that opens a VISA resource can meet.
VisaOutcomes == { "ok", "open_fails", "query_fails" }

\* PulseInstrument.check_connection: open_resource, query *IDN? in a try
\* whose finally closes the handle; the handle is a local.
CheckConnectionEvents(out) ==
    IF out = "open_fails" THEN << >> ELSE << "open", "query", "close" >>

\* PulseInstrument.__init__ with the except branch left out.
ConstructKeepsHandle(out) ==
    IF out = "open_fails" THEN << >> ELSE << "open", "query" >>

\* PulseInstrument.__init__: open_resource, query *IDN?; except Exception:
\* instr.close(); raise; else the handle is kept in self.instr.
ConstructEvents(out) ==
    IF out = "open_fails" THEN << >>
    ELSE IF out = "query_fails" THEN << "open", "query", "close" >>
    ELSE << "open", "query" >>

\* The dataclass fields of PulseConfig (BaseConfig and PulseConfig), and those
\* of each kind that have no default.
PulseConfigFields ==
    { "visa_address", "v_on", "v_off", "frequency", "trigger_delay", "resolution_n",
      "pulse_width", "waveform_mode" }
PulseConfigRequired == PulseConfigFields \ { "waveform_mode" }
SweepConfigRequired ==
    { "visa_address", "v_on", "v_off", "frequency", "trigger_delay", "resolution_n",
      "width_start", "width_stop", "width_step", "wait_time" }

\* The keyword arguments main_pulse and main_sweep pass to the constructor.
MainPulseKeywords ==
    { "visa_address", "v_on", "v_off", "frequency", "trigger_delay", "pulse_width",
      "waveform_mode" }
MainSweepKeywords ==
    { "visa_address", "v_on", "v_off", "frequency", "trigger_delay", "width_start",
      "width_stop", "width_step", "wait_time", "waveform_mode", "settling_time",
      "trigger_delay_stop", "delay_interp" }

\* The generated __init__ of a dataclass returns iff every keyword is a field
\* and every field without default is given; else it raises TypeError.
InitAccepts(keywords, all_fields, required) ==
    keywords \subseteq all_fields /\ required \subseteq keywords

MainConstructs(mode) ==
    IF mode = "pulse"
    THEN InitAccepts(MainPulseKeywords, PulseConfigFields, PulseConfigRequired)
    ELSE InitAccepts(MainSweepKeywords, SweepConfigFields, SweepConfigRequired)

\* `if errors: ... sys.exit(1)` skipped.
AfterValidateProceeds(es) == "probe"

\* `if errors:` log "Config validation failed:", one line per error, sys.exit(1).
AfterValidate(es) == IF es # { } THEN "exited" ELSE "probe"

\* The process is followed from the entry of main_pulse / main_sweep / main_dc
\* (entry "main"), and, for pulse and sweep, also from the line after the
\* constructor call with a configuration object of the mode (entry
\* "constructed"), so that the code after that call is followed for every
\* configuration although the call as written raises.
CliConfigs ==
    { c \in Configs : c.kind \in { "pulse", "sweep" } } \cup { [ kind |-> "dc" ] }

CliStart(c, e) ==
    [ mode |-> c.kind, entry |-> e, opened |-> 0, closed |-> 0, session |-> "none",
      probe |-> "none", connect |-> "none", pending |-> "none", faults |-> 0,
      status |-> -1, logged |-> { }, trace |-> << >> ]

CliInit ==
    /\ cfg \in CliConfigs
    /\ \E e \in { "main", "constructed" } :
          /\ cfg.kind = "dc" => e = "main"
          /\ cli = CliStart(cfg, e)
          /\ apc = IF e = "main" THEN "main" ELSE "built"
    /\ caller = "none"
    /\ arg_n = 0
    /\ arg_widths = << >>
    /\ ps_period = 0
    /\ g = 0
    /\ base_points = 0
    /\ k = 0
    /\ pts = 0
    /\ ret = NoResult
    /\ ret1 = NoResult
    /\ exc = "none"
    /\ errors = { }
    /\ programmed = NoResult
    /\ sess = [ page |-> "none" ]
    /\ files = [ op |-> "none" ]
    /\ AuxIdle

CliFrame ==
    /\ UNCHANGED << cfg, caller, arg_n, arg_widths, ps_period, g, base_points, k, pts,
                    ret, ret1, errors, programmed >>
    /\ UNCHANGED << sess, files, aux >>
    /\ UNCHANGED femVars
    /\ UNCHANGED instVars
    /\ UNCHANGED uiVars

\* main_pulse lines 29-40, main_sweep lines 82-99: load the document, build
\* the configuration; main_dc has none and goes to the probe.
CliMain ==
    /\ apc = "main"
    /\ IF cli.mode = "dc"
       THEN /\ apc' = "probe"
            /\ UNCHANGED << cli, exc >>
       ELSE IF MainConstructs(cli.mode)
       THEN /\ apc' = "built"
            /\ cli' = [ cli EXCEPT !.trace = Append(@, "construct") ]
            /\ UNCHANGED exc
       ELSE /\ apc' = "exited"
            /\ exc' = "TypeError"
            /\ cli' = [ cli EXCEPT !.status = 1 ]
    /\ CliFrame

\* errors = config.validate() has returned: lines 42-47 / 101-106.
CliAfterValidate ==
    /\ apc = "validated"
    /\ cli.mode \in { "pulse", "sweep" }
    /\ apc' = AfterValidate(errors)
    /\ cli' = [ cli EXCEPT !.trace = Append(@, "validate"),
                           !.logged = errors,
                           !.status = IF apc' = "exited" THEN 1 ELSE @ ]
    /\ UNCHANGED exc
    /\ CliFrame

\* validate() raised: nothing catches it, the interpreter exits with status 1.
CliUncaught ==
    /\ apc = "raised"
    /\ cli.mode \in { "pulse", "sweep" }
    /\ apc' = "exited"
    /\ cli' = [ cli EXCEPT !.status = 1 ]
    /\ UNCHANGED exc
    /\ CliFrame

\* try: PulseInstrument.check_connection(...) except Exception: sys.exit(1)
CliProbe ==
    /\ apc = "probe"
    /\ \E out \in VisaOutcomes :
          LET ev == CheckConnectionEvents(out)
          IN  /\ cli' = [ cli EXCEPT !.trace = Append(@, "probe"),
                                     !.opened = @ + Count(ev, "open"),
                                     !.closed = @ + Count(ev, "close"),
                                     !.probe = IF out = "ok" THEN "ok" ELSE "failed",
                                     !.faults = IF out = "ok" THEN @ ELSE @ + 1,
                                     !.status = IF out = "ok" THEN @ ELSE 1 ]
              /\ apc' = IF out = "ok" THEN "connect" ELSE "exited"
    /\ UNCHANGED exc
    /\ CliFrame

\* instrument = PulseInstrument(address), outside every try of main.py.
CliConnect ==
    /\ apc = "connect"
    /\ \E out \in VisaOutcomes :
          LET ev == ConstructEvents(out)
          IN  /\ cli' = [ cli EXCEPT !.trace = Append(@, "connect"),
                                     !.opened = @ + Count(ev, "open"),
                                     !.closed = @ + Count(ev, "close"),
                                     !.connect = IF out = "ok" THEN "ok" ELSE "failed",
                                     !.session = IF out = "ok" THEN "open" ELSE @,
                                     !.faults = IF out = "ok" THEN @ ELSE @ + 1,
                                     !.status = IF out = "ok" THEN @ ELSE 1 ]
              /\ apc' = IF out # "ok" THEN "exited"
                        ELSE IF cli.mode = "pulse" THEN "pulse_setup"
                        ELSE IF cli.mode = "sweep" THEN "sweep_setup"
                        ELSE "dc_zero"
              /\ exc' = IF out = "ok" THEN exc ELSE "VisaIOError"
    /\ CliFrame

\* main_pulse line 66: instrument.setup(config, config.pulse_width), which
\* returns, raises, or is interrupted (caught at line 70).
CliPulseSetup ==
    /\ apc = "pulse_setup"
    /\ \E out \in { "ok", "raise", "interrupt" } :
          /\ cli' = [ cli EXCEPT !.trace = Append(@, "setup"),
                                 !.pending = IF out = "raise" THEN "error" ELSE @,
                                 !.faults = IF out = "raise" THEN @ + 1 ELSE @ ]
          /\ apc' = IF out = "ok" THEN "blocking" ELSE "pulse_finally"
    /\ UNCHANGED exc
    /\ CliFrame

\* Lines 68-71: while True: time.sleep(1), left by KeyboardInterrupt only.
CliInterrupt ==
    /\ apc = "blocking"
    /\ apc' = "pulse_finally"
    /\ cli' = [ cli EXCEPT !.trace = Append(@, "interrupt") ]
    /\ UNCHANGED exc
    /\ CliFrame

\* Lines 72-74: finally: instrument.teardown(); instrument.close().  When
\* teardown raises, close() is not reached.
CliPulseFinally ==
    /\ apc = "pulse_finally"
    /\ \E out \in { "ok", "raise" } :
          IF out = "ok"
          THEN cli' = [ cli EXCEPT !.trace = @ \o << "teardown", "close" >>,
                                   !.closed = @ + 1,
                                   !.session = "closed",
                                   !.status = IF cli.pending = "none" THEN 0 ELSE 1 ]
          ELSE cli' = [ cli EXCEPT !.trace = Append(@, "teardown"),
                                   !.pending = "error",
                                   !.faults = @ + 1,
                                   !.status = 1 ]
    /\ apc' = "exited"
    /\ UNCHANGED exc
    /\ CliFrame

\* main_sweep lines 131-135: setup_arbitrary on the generated widths, or setup
\* at width_start.
CliSweepSetup ==
    /\ apc = "sweep_setup"
    /\ \E out \in { "ok", "raise" } :
          /\ cli' = [ cli EXCEPT
                        !.trace = Append(@, IF cfg.waveform_mode = "arbitrary"
                                            THEN "setup_arbitrary" ELSE "setup"),
                        !.pending = IF out = "raise" THEN "error" ELSE @,
                        !.faults = IF out = "raise" THEN @ + 1 ELSE @ ]
          /\ apc' = IF out = "ok" THEN "cli_run_sweep" ELSE "closing"
    /\ UNCHANGED exc
    /\ CliFrame

\* main_sweep lines 136-137: run_sweep(config, instrument), then teardown.
\* run_sweep reads config.delay_exponent (core.py line 331), which no
\* SweepConfig has.
CliRunSweep ==
    /\ apc = "cli_run_sweep"
    /\ IF HasAttr(cfg, "delay_exponent")
       THEN /\ cli' = [ cli EXCEPT !.trace = @ \o << "run_sweep", "teardown" >> ]
            /\ UNCHANGED exc
       ELSE /\ cli' = [ cli EXCEPT !.trace = Append(@, "run_sweep"),
                                   !.pending = "error" ]
            /\ exc' = "AttributeError"
    /\ apc' = "closing"
    /\ CliFrame

\* main_dc line 159: instrument.set_dc_zero().
CliSetDcZero ==
    /\ apc = "dc_zero"
    /\ \E out \in { "ok", "raise" } :
          cli' = [ cli EXCEPT !.trace = Append(@, "set_dc_zero"),
                              !.pending = IF out = "raise" THEN "error" ELSE @,
                              !.faults = IF out = "raise" THEN @ + 1 ELSE @ ]
    /\ apc' = "closing"
    /\ UNCHANGED exc
    /\ CliFrame

\* finally: instrument.close()  (main_sweep line 139, main_dc line 161)
CliClose ==
    /\ apc = "closing"
    /\ cli' = [ cli EXCEPT !.trace = Append(@, "close"),
                           !.closed = @ + 1,
                           !.session = "closed",
                           !.status = IF cli.pending = "none" THEN 0 ELSE 1 ]
    /\ apc' = "exited"
    /\ UNCHANGED exc
    /\ CliFrame

CliNext ==
    \/ CliMain
    \/ ValidateBegin
    \/ CalcEntry
    \/ CalcScale
    \/ CalcAlign
    \/ ValidateEnd
    \/ CliAfterValidate
    \/ CliUncaught
    \/ CliProbe
    \/ CliConnect
    \/ CliPulseSetup
    \/ CliInterrupt
    \/ CliPulseFinally
    \/ CliSweepSetup
    \/ CliRunSweep
    \/ CliSetDcZero
    \/ CliClose

\* ---- the pulse tab and the sidebar of the console (app.py) ----------------------
\* Bound: button presses (script runs with a handler) in one session.
MaxClicks == 4

\* st.session_state as the handlers use it, and the handles the console has
\* opened: live_instrument is "open" while a handle is stored under that key,
\* orphans counts the handles that are open and stored nowhere.  last is the
\* handler of the latest script run: what it did, in order.
SessInit ==
    sess = [ page |-> "pulse", live_connection |-> FALSE, live_instrument |-> "none",
             orphans |-> 0, ch_running |-> << FALSE, FALSE >>, clicks |-> 0,
             last |-> [ action |-> "none", channel |-> 0, events |-> << >>,
                        raised |-> FALSE, was_live |-> FALSE, was_stored |-> "none",
                        other_running |-> FALSE ] ]

Other(ch) == 3 - ch

\* What the handler leaves in last.
Done(s, action, ch, events, raised) ==
    [ action |-> action, channel |-> ch, events |-> events, raised |-> raised,
      was_live |-> s.live_connection, was_stored |-> s.live_instrument,
      other_running |-> IF ch \in { 1, 2 } THEN s.ch_running[Other(ch)] ELSE FALSE ]

\* A session of its own without the finally: closed only when the call returned.
OwnSessionNoFinally(c, m, op) ==
    IF c = "fail" THEN << "open_failed" >>
    ELSE IF m = "ok" THEN << "open", op, "close" >> ELSE << "open", op >>

\* tmp = PulseInstrument(...); try: tmp.<op>() finally: tmp.close().  The
\* constructor closes what it opened when it fails.
OwnSessionEvents(c, m, op) ==
    IF c = "fail" THEN << "open_failed" >> ELSE << "open", op, "close" >>

\* _close_live_connection: pop live_instrument, close it, clear the flag.
CloseLiveEvents(s) == IF s.live_instrument = "open" THEN << "close_live" >> ELSE << >>
CloseLive(s) == [ s EXCEPT !.live_instrument = "none", !.live_connection = FALSE ]

\* The auto-off of _pulse_stop without the test of the other channel.
AutoOffAlways(s, ch) == s.live_connection

\* _pulse_stop lines 283-288: close the live connection when the other channel
\* is not running (the flag of ch has been cleared).
AutoOff(s, ch) == ~ s.ch_running[Other(ch)] /\ s.live_connection

\* _pulse_start closing its own handle only when setup_arbitrary returned.
StartCleanupOnSuccess(close_after, m) ==
    IF close_after /\ m = "ok" THEN << "close" >> ELSE << >>

\* _pulse_start lines 250-257: except Exception: if close_after: inst.close();
\* raise, and after the try: if close_after: inst.close().
StartCleanup(close_after, m) == IF close_after THEN << "close" >> ELSE << >>

\* Start CHn: _pulse_start(pulse_config, channel), then chN_running = True.
ConStart ==
    /\ sess.page = "pulse"
    /\ sess.clicks < MaxClicks
    /\ \E ch \in { 1, 2 }, c \in { "ok", "fail" }, m \in { "ok", "raise" } :
          /\ ~ sess.ch_running[ch]
          /\ LET live == sess.live_connection
                 stored == sess.live_instrument = "open"
                 opened == IF live /\ stored THEN << >>
                           ELSE IF c = "fail" THEN << "open_failed" >>
                           ELSE IF live THEN << "open", "store_live" >> ELSE << "open" >>
                 failed_open == opened = << "open_failed" >>
                 events == IF failed_open THEN opened
                           ELSE opened \o << "setup_arbitrary" >>
                                  \o StartCleanup(~ live, m)
                 raised == failed_open \/ m = "raise"
                 s1 == IF live /\ ~ failed_open
                       THEN [ sess EXCEPT !.live_instrument = "open" ] ELSE sess
                 s2 == IF raised THEN s1
                       ELSE [ s1 EXCEPT !.ch_running[ch] = TRUE ]
             IN  sess' = [ s2 EXCEPT !.clicks = @ + 1,
                                      !.last = Done(sess, "start", ch, events, raised) ]
    /\ UNCHANGED << ui, cli, files, aux >>
    /\ UNCHANGED femVars
    /\ UNCHANGED arbVars
    /\ UNCHANGED instVars

\* Stop CHn: _pulse_stop(visa_address, channel); an exception is logged by
\* the handler.
ConStop ==
    /\ sess.page = "pulse"
    /\ sess.clicks < MaxClicks
    /\ \E ch \in { 1, 2 }, c \in { "ok", "fail" }, m \in { "ok", "raise" } :
          /\ sess.ch_running[ch]
          /\ LET use_live == sess.live_connection /\ sess.live_instrument = "open"
                 down == IF use_live THEN << "teardown" >>
                         ELSE OwnSessionEvents(c, m, "teardown")
                 raised == (~ use_live /\ c = "fail") \/ m = "raise"
                 s1 == [ sess EXCEPT !.ch_running[ch] = FALSE ]
                 off == AutoOff(s1, ch)
                 s2 == IF off THEN CloseLive(s1) ELSE s1
                 events == IF raised THEN down
                           ELSE down \o << "flag_cleared" >>
                                     \o (IF off THEN CloseLiveEvents(s1) ELSE << >>)
             IN  sess' = [ (IF raised THEN sess ELSE s2) EXCEPT
                              !.clicks = @ + 1,
                              !.last = Done(sess, "stop", ch, events, raised) ]
    /\ UNCHANGED << ui, cli, files, aux >>
    /\ UNCHANGED femVars
    /\ UNCHANGED arbVars
    /\ UNCHANGED instVars

\* Live On (lines 607-622): open, store, set the flag, push the trigger delay
\* to the running channels; except Exception: live_connection = False.
ConLiveOn ==
    /\ sess.page = "pulse"
    /\ sess.clicks < MaxClicks
    /\ ~ sess.live_connection
    /\ \E c \in { "ok", "fail" }, m \in { "ok", "raise" } :
          LET running == sess.ch_running[1] \/ sess.ch_running[2]
              raised == c = "fail" \/ (running /\ m = "raise")
              events == IF c = "fail" THEN << "open_failed" >>
                        ELSE << "open", "store_live" >>
                               \o (IF running THEN << "set_trigger_delay" >> ELSE << >>)
              s1 == IF c = "fail" THEN sess
                    ELSE [ sess EXCEPT
                             !.orphans = IF sess.live_instrument = "open"
                                         THEN @ + 1 ELSE @,
                             !.live_instrument = "open",
                             !.live_connection = TRUE ]
              s2 == IF raised THEN [ s1 EXCEPT !.live_connection = FALSE ] ELSE s1
          IN  sess' = [ s2 EXCEPT !.clicks = @ + 1,
                                   !.last = Done(sess, "live_on", 0, events, raised) ]
    /\ UNCHANGED << ui, cli, files, aux >>
    /\ UNCHANGED femVars
    /\ UNCHANGED arbVars
    /\ UNCHANGED instVars

\* Live Off (lines 624-626): _close_live_connection().
ConLiveOff ==
    /\ sess.page = "pulse"
    /\ sess.clicks < MaxClicks
    /\ sess.live_connection
    /\ sess' = [ CloseLive(sess) EXCEPT
                   !.clicks = @ + 1,
                   !.last = Done(sess, "live_off", 0, CloseLiveEvents(sess), FALSE) ]
    /\ UNCHANGED << ui, cli, files, aux >>
    /\ UNCHANGED femVars
    /\ UNCHANGED arbVars
    /\ UNCHANGED instVars

\* A changed trigger delay while live (lines 628-643): push it to the running
\* channels; on an exception _close_live_connection().
ConLiveDelay ==
    /\ sess.page = "pulse"
    /\ sess.clicks < MaxClicks
    /\ sess.live_connection
    /\ sess.live_instrument = "open"
    /\ sess.ch_running[1] \/ sess.ch_running[2]
    /\ \E m \in { "ok", "raise" } :
          LET events == << "set_trigger_delay" >>
                           \o (IF m = "raise" THEN CloseLiveEvents(sess) ELSE << >>)
          IN  sess' = [ (IF m = "raise" THEN CloseLive(sess) ELSE sess) EXCEPT
                           !.clicks = @ + 1,
                           !.last = Done(sess, "live_delay", 0, events, m = "raise") ]
    /\ UNCHANGED << ui, cli, files, aux >>
    /\ UNCHANGED femVars
    /\ UNCHANGED arbVars
    /\ UNCHANGED instVars

\* The live connection is closed first when the flag is set (lines 314-316
\* and 328-330).
Preempt(s) == IF s.live_connection THEN CloseLive(s) ELSE s
PreemptEvents(s) == IF s.live_connection THEN CloseLiveEvents(s) ELSE << >>

\* Check (lines 313-323): check_connection in a try that reports the failure.
ConCheck ==
    /\ sess.page = "pulse"
    /\ sess.clicks < MaxClicks
    /\ \E out \in VisaOutcomes :
          LET events == PreemptEvents(sess) \o CheckConnectionEvents(out)
          IN  sess' = [ Preempt(sess) EXCEPT
                          !.clicks = @ + 1,
                          !.last = Done(sess, "check", 0, events, out # "ok") ]
    /\ UNCHANGED << ui, cli, files, aux >>
    /\ UNCHANGED femVars
    /\ UNCHANGED arbVars
    /\ UNCHANGED instVars

\* DC 0V (lines 326-342): a session of its own around set_dc_zero().
ConDcZero ==
    /\ sess.page = "pulse"
    /\ sess.clicks < MaxClicks
    /\ \E c \in { "ok", "fail" }, m \in { "ok", "raise" } :
          LET events == PreemptEvents(sess) \o OwnSessionEvents(c, m, "set_dc_zero")
          IN  sess' = [ Preempt(sess) EXCEPT
                          !.clicks = @ + 1,
                          !.last = Done(sess, "dc_zero", 0, events,
                                        c = "fail" \/ m = "raise") ]
    /\ UNCHANGED << ui, cli, files, aux >>
    /\ UNCHANGED femVars
    /\ UNCHANGED arbVars
    /\ UNCHANGED instVars

\* Start Delay Sweep (lines 962-1018): a session of its own, closed in the
\* finally.  (Start Sweep of the width tab is as the delay one; the script
\* does not reach its button when the fields of that tab parse, see
\* BuildSweepConfig.)
ConSweep ==
    /\ sess.page = "pulse"
    /\ sess.clicks < MaxClicks
    /\ \E c \in { "ok", "fail" }, m \in { "ok", "raise" } :
          sess' = [ sess EXCEPT
                      !.clicks = @ + 1,
                      !.last = Done(sess, "sweep", 0, OwnSessionEvents(c, m, "sweep"),
                                    c = "fail" \/ m = "raise") ]
    /\ UNCHANGED << ui, cli, files, aux >>
    /\ UNCHANGED femVars
    /\ UNCHANGED arbVars
    /\ UNCHANGED instVars

ConNext ==
    \/ ConStart
    \/ ConStop
    \/ ConLiveOn
    \/ ConLiveOff
    \/ ConLiveDelay
    \/ ConCheck
    \/ ConDcZero
    \/ ConSweep

RECURSIVE DumpTable(_, _), Dump(_, _), Parse(_, _, _), FlattenFrom(_, _, _), Digits(_), NextSavePath(_, _)

\* ---- configuration files (config.py) ---------------------------------------------
\* A document is a mapping section -> key -> value; only the keys the loaders
\* treat differently are explored.  frequency in Hz, period in ms, so that
\* 1 / period is 1000 \div period on the explored values.
SectionOrder == << "common", "width_sweep" >>
KeyOrder == << "frequency", "period", "pulse_width", "bogus" >>
DocValues == { 0, 4 }
Reciprocal(period) == 1000 \div period

Tables == UNION { [ ks -> DocValues ] : ks \in SUBSET Range(KeyOrder) }
Documents == UNION { [ ss -> Tables ] : ss \in SUBSET Range(SectionOrder) }

Without(f, key) == [ x \in DOMAIN f \ { key } |-> f[x] ]
With(f, key, v) == [ x \in DOMAIN f \cup { key } |-> IF x = key THEN v ELSE f[x] ]

\* toml.dump: one header line per section, one line per key of the section.
DumpTable(t, keys) ==
    IF keys = << >> THEN << >>
    ELSE (IF Head(keys) \in DOMAIN t
          THEN << [ line |-> "pair", name |-> Head(keys), val |-> t[Head(keys)] ] >>
          ELSE << >>) \o DumpTable(t, Tail(keys))

Dump(d, sections) ==
    IF sections = << >> THEN << >>
    ELSE (IF Head(sections) \in DOMAIN d
          THEN << [ line |-> "section", name |-> Head(sections), val |-> 0 ] >>
                  \o DumpTable(d[Head(sections)], KeyOrder)
          ELSE << >>) \o Dump(d, Tail(sections))

\* toml.load: a header opens a table, a pair goes into the open table.
Parse(lines, d, cur) ==
    IF lines = << >> THEN d
    ELSE LET l == Head(lines)
         IN  IF l.line = "section"
             THEN Parse(Tail(lines), With(d, l.name, << >>), l.name)
             ELSE Parse(Tail(lines), With(d, cur, With(d[cur], l.name, l.val)), cur)

\* The period -> frequency conversion both loaders apply to a table:
\* 1.0 / period raises ZeroDivisionError for period = 0.
NormalizeRaises(t) ==
    "period" \in DOMAIN t /\ "frequency" \notin DOMAIN t /\ t["period"] = 0

Normalize(t) ==
    IF "period" \in DOMAIN t /\ "frequency" \notin DOMAIN t
    THEN With(Without(t, "period"), "frequency", Reciprocal(t["period"]))
    ELSE IF "period" \in DOMAIN t THEN Without(t, "period")
    ELSE t

\* load_unified_toml: common = data.get("common", {}), converted in place.
LoadUnifiedRaises(data) == "common" \in DOMAIN data /\ NormalizeRaises(data["common"])

LoadUnified(data) ==
    IF "common" \in DOMAIN data THEN With(data, "common", Normalize(data["common"]))
    ELSE data

\* BaseConfig._load_and_flatten_toml: flat.update(section) in document
\* order, the conversion, flat.setdefault("resolution_n", 1).
FlattenFrom(d, sections, flat) ==
    IF sections = << >> THEN flat
    ELSE IF Head(sections) \in DOMAIN d
    THEN LET t == d[Head(sections)]
         IN  FlattenFrom(d, Tail(sections),
                         [ x \in DOMAIN flat \cup DOMAIN t |->
                             IF x \in DOMAIN t THEN t[x] ELSE flat[x] ])
    ELSE FlattenFrom(d, Tail(sections), flat)

Flatten(d) == FlattenFrom(d, SectionOrder, << >>)

\* The explored fields of PulseConfig: those without default, and all.  The
\* other fields without default (visa_address, v_on, v_off, trigger_delay) are
\* taken as present in every explored file.
ExploredRequired == { "frequency", "pulse_width", "resolution_n" }
ExploredFields == ExploredRequired

\* from_toml: keep the keys that are fields, call cls(**filtered).
FromTomlRaises(d) ==
    IF NormalizeRaises(Flatten(d)) THEN "ZeroDivisionError"
    ELSE LET flat == With(Normalize(Flatten(d)), "resolution_n", 1)
         IN  IF ExploredRequired \subseteq DOMAIN flat THEN "none" ELSE "TypeError"

FromTomlResult(d) ==
    LET flat == With(Normalize(Flatten(d)), "resolution_n", 1)
    IN  [ x \in DOMAIN flat \cap ExploredFields |-> flat[x] ]

\* ---- next_save_path ---------------------------------------------------------
\* Bound: Save TOML actions in one session.
MaxSaves == 3

\* A file {dir}/{prefix}{suffix}.toml is known by the digits of its suffix.
Digits(n) == IF n < 10 THEN << n >> ELSE Digits(n \div 10) \o << n % 10 >>

\* f"{nn}" instead of f"{nn:02d}".
FormatPlain(nn) == Digits(nn)

\* f"{nn:02d}"
Format02d(nn) == IF nn < 10 THEN << 0, nn >> ELSE Digits(nn)

\* nn = 1; while True: p = ...; if not p.exists(): return p; nn += 1
NextSavePath(existing, nn) ==
    IF Format02d(nn) \notin existing THEN Format02d(nn)
    ELSE NextSavePath(existing, nn + 1)

\* The numbered files 01 .. m of the prefix.
Numbered(m) == { Format02d(n) : n \in 1..m }

\* Other files of the directory whose names start with the prefix.
OddNames == { << 1 >>, << 0, 0 >>, << 0, 0, 1 >>, << 0, 3 >>, << 1, 1 >> }

InitialDirs == { Numbered(m) \cup x : m \in { 0, 1, 2, 9, 10, 99 }, x \in SUBSET OddNames }

FilesInit ==
    \/ \E d \in Documents :
          files = [ op |-> "save_unified", doc |-> d, disk |-> << >>, result |-> << >>,
                    raised |-> "none" ]
    \/ \E d \in Documents :
          files = [ op |-> "from_toml", doc |-> d, disk |-> Dump(d, SectionOrder),
                    result |-> << >>, raised |-> "none" ]
    \/ \E x \in InitialDirs :
          files = [ op |-> "save_toml", existing |-> x, before |-> x, returned |-> << >>,
                    saved |-> << >>, overwrote |-> FALSE ]

FilesFrame ==
    /\ UNCHANGED << ui, sess, cli, aux >>
    /\ UNCHANGED femVars
    /\ UNCHANGED arbVars
    /\ UNCHANGED instVars

\* save_unified_toml(path, data)
SaveUnifiedToml ==
    /\ files.op = "save_unified"
    /\ files' = [ files EXCEPT !.op = "load_unified", !.disk = Dump(files.doc, SectionOrder) ]
    /\ FilesFrame

\* load_unified_toml(path)
LoadUnifiedToml ==
    /\ files.op = "load_unified"
    /\ LET data == Parse(files.disk, << >>, "")
       IN  files' = IF LoadUnifiedRaises(data)
                    THEN [ files EXCEPT !.op = "loaded_unified",
                                        !.raised = "ZeroDivisionError" ]
                    ELSE [ files EXCEPT !.op = "loaded_unified",
                                        !.result = LoadUnified(data) ]
    /\ FilesFrame

\* PulseConfig.from_toml(path)
FromToml ==
    /\ files.op = "from_toml"
    /\ LET data == Parse(files.disk, << >>, "")
           r == FromTomlRaises(data)
       IN  files' = IF r # "none"
                    THEN [ files EXCEPT !.op = "loaded_config", !.raised = r ]
                    ELSE [ files EXCEPT !.op = "loaded_config",
                                        !.result = FromTomlResult(data) ]
    /\ FilesFrame

\* Save TOML (app.py lines 1144-1153): path = next_save_path(dir, prefix);
\* save_unified_toml(path, data), which creates the file or fails before.
SaveToml ==
    /\ files.op = "save_toml"
    /\ Len(files.saved) < MaxSaves
    /\ \E out \in { "written", "open_fails" } :
          LET p == NextSavePath(files.existing, 1)
          IN  files' = IF out = "written"
                       THEN [ files EXCEPT !.before = files.existing,
                                           !.returned = p,
                                           !.existing = @ \cup { p },
                                           !.saved = Append(@, p),
                                           !.overwrote = @ \/ p \in files.existing ]
                       ELSE [ files EXCEPT !.before = files.existing,
                                           !.returned = p ]
    /\ FilesFrame

FilesNext ==
    \/ SaveUnifiedToml
    \/ LoadUnifiedToml
    \/ FromToml
    \/ SaveToml

\* ---- the multimeter (core_34401A.py) --------------------------------------------
\* Bound: measurement calls inside one managed scope.
MaxReadings == 2

\* What the serial link does with one attempt.
LinkOutcomes == { "ok", "fails" }

\* __init__: open_resource, the serial settings, *IDN? inside
\* try / except Exception: instr.close(); raise, then SYST:REM and
\* self.instr = instr.
DmmConstructOutcomes == { "open_fails", "query_fails", "rem_fails", "ok" }

\* close() without the two try blocks: the first failure is raised.
CloseUnguarded(loc, cl) ==
    IF loc = "fails"
    THEN [ events |-> << [ cmd |-> "SYST:LOC", out |-> loc ] >>, raised |-> TRUE ]
    ELSE [ events |-> << [ cmd |-> "SYST:LOC", out |-> loc ],
                         [ cmd |-> "close", out |-> cl ] >>,
           raised |-> cl = "fails" ]

\* close(): try: self.instr.write("SYST:LOC") except Exception: pass;
\* try: self.instr.close() except Exception: pass.
CloseAttempts(loc, cl) ==
    [ events |-> << [ cmd |-> "SYST:LOC", out |-> loc ],
                    [ cmd |-> "close", out |-> cl ] >>,
      raised |-> FALSE ]

\* A write on a handle that is closed already fails.
LinkOutcomesOn(handle) == IF handle = "open" THEN LinkOutcomes ELSE { "fails" }

DmmInit ==
    aux = [ m |-> "dmm", pc |-> "new", scope |-> "none", handle |-> "none",
            stored |-> FALSE, body |-> << >>, pending |-> "none",
            last_close |-> << >>, close_raised |-> FALSE, closes |-> 0,
            left_with |-> "none" ]

DmmFrame ==
    /\ UNCHANGED << ui, sess, cli, files >>
    /\ UNCHANGED femVars
    /\ UNCHANGED arbVars
    /\ UNCHANGED instVars

\* Multimeter(...), as the head of a with statement or as a plain call.
DmmConstruct ==
    /\ aux.m = "dmm"
    /\ aux.pc = "new"
    /\ \E out \in DmmConstructOutcomes, sc \in { "with", "plain" } :
          aux' = [ aux EXCEPT
                     !.scope = sc,
                     !.handle = CASE out = "open_fails" -> "none"
                                  [] out = "query_fails" -> "closed"
                                  [] OTHER -> "open",
                     !.stored = (out = "ok"),
                     !.pending = IF out = "ok" THEN "none" ELSE "VisaIOError",
                     !.left_with = IF out = "ok" THEN "none" ELSE "VisaIOError",
                     !.pc = IF out = "ok" THEN "body" ELSE "exited" ]
    /\ DmmFrame

\* configure_dc_voltage(), read() or read_dc_voltage() in the body; a failure
\* of the link, or a reply float() does not parse, raises out of the body.
DmmMeasure ==
    /\ aux.m = "dmm"
    /\ aux.pc = "body"
    /\ Len(aux.body) < MaxReadings
    /\ \E call \in { "configure_dc_voltage", "read", "read_dc_voltage" },
          out \in LinkOutcomesOn(aux.handle) \cup { "bad_reply" } :
          /\ (out = "bad_reply") => call # "configure_dc_voltage" /\ aux.handle = "open"
          /\ aux' = [ aux EXCEPT
                        !.body = Append(@, [ cmd |-> call, out |-> out ]),
                        !.pending = CASE out = "ok" -> "none"
                                      [] out = "fails" -> "VisaIOError"
                                      [] OTHER -> "ValueError",
                        !.pc = IF out = "ok" THEN "body"
                               ELSE IF aux.scope = "with" THEN "leaving" ELSE "exited",
                        !.left_with = IF out = "ok" \/ aux.scope = "with" THEN @
                                      ELSE IF out = "fails" THEN "VisaIOError"
                                      ELSE "ValueError" ]
    /\ DmmFrame

\* The end of the with body is reached.
DmmBodyEnds ==
    /\ aux.m = "dmm"
    /\ aux.pc = "body"
    /\ aux.scope = "with"
    /\ aux' = [ aux EXCEPT !.pc = "leaving" ]
    /\ DmmFrame

\* The result of one close() on the object.
AfterClose(a, r) ==
    [ a EXCEPT !.last_close = r.events,
               !.close_raised = r.raised,
               !.closes = @ + 1,
               !.handle = IF \E i \in DOMAIN r.events :
                                r.events[i] = [ cmd |-> "close", out |-> "ok" ]
                          THEN "closed" ELSE @ ]

\* __exit__(exc_type, exc_val, exc_tb): self.close(), returns None, so an
\* exception of the body goes on after the cleanup.
DmmExit ==
    /\ aux.m = "dmm"
    /\ aux.pc = "leaving"
    /\ \E loc \in LinkOutcomesOn(aux.handle), cl \in LinkOutcomes :
          LET r == CloseAttempts(loc, cl)
              a == AfterClose(aux, r)
          IN  aux' = [ a EXCEPT !.pc = "exited",
                                !.left_with = IF r.raised THEN "VisaIOError"
                                              ELSE aux.pending ]
    /\ DmmFrame

\* close() called by the program, on an object used without with, or once
\* more after the scope was left.
DmmClose ==
    /\ aux.m = "dmm"
    /\ aux.stored
    /\ \/ aux.pc = "body" /\ aux.scope = "plain"
       \/ aux.pc = "exited" /\ aux.closes = 1
    /\ \E loc \in LinkOutcomesOn(aux.handle), cl \in LinkOutcomes :
          LET r == CloseAttempts(loc, cl)
              a == AfterClose(aux, r)
          IN  aux' = [ a EXCEPT !.pc = "exited",
                                !.left_with = IF r.raised THEN "VisaIOError" ELSE @ ]
    /\ DmmFrame

DmmNext ==
    \/ DmmConstruct
    \/ DmmMeasure
    \/ DmmBodyEnds
    \/ DmmExit
    \/ DmmClose

\* ---- logging (log_setup.py) -------------------------------------------------------
\* Bounds: runs of the script in one process, records logged, seconds elapsed.
MaxRuns == 3

MaxLogged == 2

MaxClock == 2

\* The root logger hands a record to each of its handlers: one line on the
\* console per stream handler, one line in the file of each file handler.
Emit(a) ==
    [ a EXCEPT !.console = @ + a.stream_handlers,
               !.disk = [ t \in DOMAIN @ |->
                            @[t] + Cardinality({ i \in DOMAIN a.file_handlers :
                                                    a.file_handlers[i] = t }) ],
               !.last = [ console |-> a.stream_handlers,
                          file |-> Len(a.file_handlers) ] ]

LogInit ==
    aux = [ m |-> "logging", clock |-> 0, runs |-> 0, logged |-> 0,
            file_handlers |-> << >>, stream_handlers |-> 0,
            disk |-> << >>, console |-> 0,
            last |-> [ console |-> 0, file |-> 0 ] ]

LogFrame ==
    /\ UNCHANGED << ui, sess, cli, files >>
    /\ UNCHANGED femVars
    /\ UNCHANGED arbVars
    /\ UNCHANGED instVars

\* A second passes.
LogTick ==
    /\ aux.m = "logging"
    /\ aux.clock < MaxClock
    /\ aux' = [ aux EXCEPT !.clock = @ + 1 ]
    /\ LogFrame

\* setup_logging(), called by main() once and by app.py at module level, that
\* is on every run of the script: a FileHandler on logs/{timestamp}.log and a
\* StreamHandler are added to the root logger, then "Logging started" is
\* logged.
SetupLogging ==
    /\ aux.m = "logging"
    /\ aux.runs < MaxRuns
    /\ LET t == aux.clock
           a == [ aux EXCEPT
                    !.runs = @ + 1,
                    !.file_handlers = Append(@, t),
                    !.stream_handlers = @ + 1,
                    !.disk = IF t \in DOMAIN @ THEN @ ELSE @ @@ (t :> 0) ]
       IN  aux' = Emit(a)
    /\ LogFrame

\* logger.info(...) / logger.error(...) anywhere in the program.
LogRecord ==
    /\ aux.m = "logging"
    /\ aux.runs >= 1
    /\ aux.logged < MaxLogged
    /\ aux' = Emit([ aux EXCEPT !.logged = @ + 1 ])
    /\ LogFrame

LogNext ==
    \/ LogTick
    \/ SetupLogging
    \/ LogRecord

\* ---- _generate_pulse_waveform (core.py) -------------------------------------------
\* Bound: points_per_period of the explored waveforms.
MaxPoints == 9

\* duty_cycle in tenths of a percent; 0 % .. 100 % and two values above.
DutyValues == { 0, 5, 100, 125, 250, 333, 375, 500, 625, 667, 750, 875, 995, 1000,
                1100, 2500 }

\* A slice bound of a numpy array of length n: a negative bound counts from
\* the end, and every bound is clipped to 0 .. n.
SliceBound(x, n) ==
    IF x < 0 THEN (IF x + n < 0 THEN 0 ELSE x + n) ELSE IF x > n THEN n ELSE x

\* start = 0 instead of (points_per_period - on_points) // 2.
StartAtZero(points_per_period, on_points) == 0

\* start = (points_per_period - on_points) // 2
CenteredStart(points_per_period, on_points) == FloorDiv(points_per_period - on_points, 2)

\* np.full(n, fill); waveform[start:start + on_points] = value
FilledSlice(n, fill, start, on_points, value) ==
    LET lo == SliceBound(start, n)
        hi == SliceBound(start + on_points, n)
    IN  [ i \in 1..n |-> IF lo <= i - 1 /\ i - 1 < hi THEN value ELSE fill ]

GeneratePulseWaveform(points_per_period, duty_cycle, inverted) ==
    LET on_points == RoundHalfEven(points_per_period * duty_cycle, 1000)
        start == CenteredStart(points_per_period, on_points)
    IN  IF inverted
        THEN FilledSlice(points_per_period, 4095, start, on_points, 0)
        ELSE FilledSlice(points_per_period, 0, start, on_points, 4095)

WaveInit ==
    \E n \in 1..MaxPoints, d \in DutyValues, inv \in BOOLEAN :
        aux = [ m |-> "wave", pc |-> "call", points_per_period |-> n,
                duty_cycle |-> d, inverted |-> inv, waveform |-> << >>,
                other |-> << >> ]

WaveFrame ==
    /\ UNCHANGED << ui, sess, cli, files >>
    /\ UNCHANGED femVars
    /\ UNCHANGED arbVars
    /\ UNCHANGED instVars

\* _generate_pulse_waveform(points_per_period, duty, inverted=inverted), and
\* the same call with the other polarity next to it.
CallGeneratePulseWaveform ==
    /\ aux.m = "wave"
    /\ aux.pc = "call"
    /\ aux' = [ aux EXCEPT
                  !.pc = "returned",
                  !.waveform = GeneratePulseWaveform(aux.points_per_period,
                                                     aux.duty_cycle, aux.inverted),
                  !.other = GeneratePulseWaveform(aux.points_per_period,
                                                  aux.duty_cycle, ~ aux.inverted) ]
    /\ WaveFrame

WaveNext == CallGeneratePulseWaveform

\* ---- the sweep flows: main_sweep, Start Sweep, Start Delay Sweep -----------------
\* The bracket around a sweep (connect, setup per channel, the sweep, teardown
\* per channel, close) and the steps of run_sweep, with every instrument call
\* succeeding or raising.  run_sweep is followed for the SweepConfig of
\* config.py, which has no attribute delay_exponent, and for a configuration
\* object that carries the delay_exponent the Start Sweep handler passes
\* (app.py line 771), so that the lines after the read of the attribute are
\* followed too.
Exponents == { -1, 0, 1, 2 }

\* (width_start, width_stop, width_step) in half ps: three widths, three
\* widths of which the last lies above width_stop, one width, two widths.
SweepShapes ==
    { << 20000, 40000, 10000 >>, << 20000, 40000, 12000 >>,
      << 20000, 20000, 10000 >>, << 20000, 30000, 10000 >> }

SweepObjects ==
    [ trigger_delay : { 0, 8 },
      trigger_delay_stop : { [ set |-> FALSE, val |-> 0 ], [ set |-> TRUE, val |-> 0 ],
                             [ set |-> TRUE, val |-> 8 ], [ set |-> TRUE, val |-> 16 ] },
      shape : SweepShapes,
      delay_exponent : { [ has |-> FALSE, val |-> 1 ] }
                         \cup { [ has |-> TRUE, val |-> x ] : x \in Exponents },
      waveform_mode : { "arbitrary", "square" } ]

\* x ** n for an integer n >= 0
RECURSIVE Pow(_, _)
Pow(x, n) == IF n = 0 THEN 1 ELSE x * Pow(x, n - 1)

\* A width on the 0.1 ns grid [half ps] as a number of grid steps.
GridSteps(hw) == hw \div HalfPsPerDecimal10

\* run_sweep lines 332-337 and _apply_delay lines 343-344:
\* f_start = width_start ** _exp, f_stop = width_stop ** _exp; when they
\* differ a = (delay_start - delay_stop) / (f_start - f_stop) and
\* b = delay_start - a * f_start, else a = b = 0;
\* raw = a * widths[i] ** _exp + b; delay = round(raw / 8) * 8.
InterpolatedDelay(c, hw) ==
    LET d0 == c.trigger_delay
        d1 == c.trigger_delay_stop.val
        n == c.delay_exponent.val
        p0 == Pow(GridSteps(c.shape[1]), Abs(n))
        p1 == Pow(GridSteps(c.shape[2]), Abs(n))
        pw == Pow(GridSteps(hw), Abs(n))
    IN  IF p0 = p1 THEN 8 * RoundHalfEven(0, 8)
        ELSE IF n >= 0
        THEN 8 * RoundHalfEven(d0 * (p0 - p1) + (d0 - d1) * (pw - p0), 8 * (p0 - p1))
        ELSE 8 * RoundHalfEven(d0 * (p1 - p0) * pw + (d0 - d1) * p1 * (p0 - pw),
                               8 * (p1 - p0) * pw)

\* sweep_delay = delay_stop is not None and delay_stop != delay_start
SweepDelay(c) == c.trigger_delay_stop.set /\ c.trigger_delay_stop.val # c.trigger_delay

\* The channels of a flow: main_sweep uses the default channel 1.
FlowChannels == { << 1 >>, << 2 >>, << 1, 2 >> }

\* select_segment(index, channel): :TRACe:SEL {index}, without the + 1.
SelectedSegmentSameIndex(index) == index

\* select_segment(index, channel): :TRACe:SEL {index + 1}
SelectedSegment(index) == index + 1

\* Where an exception in the try block of the flow goes: the three flows
\* have teardown inside the try, so it is skipped and close() runs.
AfterFailure(a) == "closing"

SweepFlowInit ==
    \E fl \in { "main_sweep", "width_sweep", "delay_sweep" }, c \in SweepObjects,
       chs \in FlowChannels :
        /\ fl = "main_sweep" => chs = << 1 >> /\ ~ c.delay_exponent.has
        /\ fl # "main_sweep" => c.waveform_mode = "arbitrary"
        /\ fl = "delay_sweep" =>
              /\ c.shape = << 20000, 20000, 10000 >>
              /\ ~ c.delay_exponent.has
              /\ ~ c.trigger_delay_stop.set
        /\ aux = [ m |-> "sweep", flow |-> fl, config |-> c, channels |-> chs,
                   pc |-> "connect", handle |-> "none", ch_i |-> 1, i |-> 0,
                   setup_widths |-> << >>, widths |-> << >>,
                   uploaded |-> << { }, { } >>, enabled |-> { }, torn |-> { },
                   sent |-> << >>, raised |-> "none", closed_after |-> { } ]

SweepFlowFrame ==
    /\ UNCHANGED << ui, sess, cli, files >>
    /\ UNCHANGED femVars
    /\ UNCHANGED arbVars
    /\ UNCHANGED instVars

\* The widths of the flow: _generate_widths of the configuration, or
\* [config.pulse_width] in the delay sweep.
FlowWidths(a) ==
    IF a.flow = "delay_sweep" THEN << a.config.shape[1] >>
    ELSE GenerateWidths(a.config.shape[1], a.config.shape[2], a.config.shape[3])

\* instrument = PulseInstrument(config.visa_address): main.py line 129 (before
\* the try), app.py lines 803 and 971 (inside it, instrument = None before).
SwConnect ==
    /\ aux.m = "sweep"
    /\ aux.pc = "connect"
    /\ \E out \in { "ok", "fail" } :
          aux' = IF out = "ok"
                 THEN [ aux EXCEPT !.handle = "open", !.pc = "setup",
                                   !.setup_widths = FlowWidths(aux) ]
                 ELSE [ aux EXCEPT !.raised = "VisaIOError", !.pc = "done" ]
    /\ SweepFlowFrame

\* setup_arbitrary(config, widths, channel=ch) for the next channel (setup at
\* width_start in square mode of main_sweep): the segments 1 .. len(widths)
\* are defined and uploaded, then the output is switched on.
SwSetup ==
    /\ aux.m = "sweep"
    /\ aux.pc = "setup"
    /\ LET ch == aux.channels[aux.ch_i]
           last == aux.ch_i = Len(aux.channels)
       IN  \E out \in { "ok", "raise" } :
             aux' = IF out = "ok"
                    THEN [ aux EXCEPT
                             !.uploaded[ch] = IF aux.config.waveform_mode = "arbitrary"
                                              THEN 1..Len(aux.setup_widths) ELSE { },
                             !.enabled = @ \cup { ch },
                             !.ch_i = IF last THEN 1 ELSE @ + 1,
                             !.pc = IF last THEN "run_sweep" ELSE "setup" ]
                    ELSE [ aux EXCEPT !.raised = "VisaIOError",
                                      !.pc = AfterFailure(aux), !.ch_i = 1 ]
    /\ SweepFlowFrame

\* run_sweep lines 316-337: the widths are generated again, then
\* _exp = config.delay_exponent is read.  run_delay_sweep as one step.
SwRunSweepBegin ==
    /\ aux.m = "sweep"
    /\ aux.pc = "run_sweep"
    /\ IF aux.flow = "delay_sweep"
       THEN \E out \in { "ok", "raise" } :
              aux' = IF out = "ok" THEN [ aux EXCEPT !.pc = "teardown" ]
                     ELSE [ aux EXCEPT !.raised = "VisaIOError",
                                       !.pc = AfterFailure(aux) ]
       ELSE aux' = IF aux.config.delay_exponent.has
                   THEN [ aux EXCEPT !.widths = FlowWidths(aux), !.i = 0,
                                     !.pc = "loop" ]
                   ELSE [ aux EXCEPT !.widths = FlowWidths(aux),
                                     !.raised = "AttributeError",
                                     !.pc = AfterFailure(aux) ]
    /\ SweepFlowFrame

\* The delay commands of step i: nothing unless sweep_delay.
StepDelays(a) ==
    IF SweepDelay(a.config)
    THEN [ j \in 1..Len(a.channels) |->
             [ cmd |-> "delay", ch |-> a.channels[j], step |-> a.i,
               arg |-> InterpolatedDelay(a.config, a.widths[a.i + 1]) ] ]
    ELSE << >>

\* The width commands of step i: select_segment(i) in arbitrary mode,
\* set_pulse_width(width) in square mode, on every channel.
StepWidths(a) ==
    [ j \in 1..Len(a.channels) |->
        IF a.config.waveform_mode = "arbitrary"
        THEN [ cmd |-> "select", ch |-> a.channels[j], step |-> a.i,
               arg |-> SelectedSegment(a.i) ]
        ELSE [ cmd |-> "width", ch |-> a.channels[j], step |-> a.i,
               arg |-> a.widths[a.i + 1] ] ]

\* One pass of the loop of run_sweep (lines 350-357 / 361-372): wait,
\* _apply_delay(i), the width on every channel, callback.  A failure of the
\* link is taken at the first command of the pass.
SwStep ==
    /\ aux.m = "sweep"
    /\ aux.pc = "loop"
    /\ aux.i < Len(aux.widths)
    /\ \E out \in { "ok", "raise" } :
          aux' = IF out = "ok"
                 THEN [ aux EXCEPT !.sent = @ \o StepDelays(aux) \o StepWidths(aux),
                                   !.i = @ + 1 ]
                 ELSE [ aux EXCEPT !.raised = "VisaIOError",
                                   !.pc = AfterFailure(aux) ]
    /\ SweepFlowFrame

\* The loop is done: the final wait, run_sweep returns.
SwRunSweepEnd ==
    /\ aux.m = "sweep"
    /\ aux.pc = "loop"
    /\ aux.i = Len(aux.widths)
    /\ aux' = [ aux EXCEPT !.pc = "teardown" ]
    /\ SweepFlowFrame

\* instrument.teardown(channel=ch) for the next channel (main.py line 137,
\* app.py lines 849-850 and 1007-1008).
SwTeardown ==
    /\ aux.m = "sweep"
    /\ aux.pc = "teardown"
    /\ LET chs == IF aux.flow = "main_sweep" THEN << 1 >> ELSE aux.channels
           ch == chs[aux.ch_i]
           last == aux.ch_i = Len(chs)
       IN  \E out \in { "ok", "raise" } :
             aux' = IF out = "ok"
                    THEN [ aux EXCEPT !.torn = @ \cup { ch },
                                      !.ch_i = IF last THEN 1 ELSE @ + 1,
                                      !.pc = IF last THEN "closing" ELSE "teardown" ]
                    ELSE [ aux EXCEPT !.torn = @ \cup { ch },
                                      !.raised = "VisaIOError", !.pc = "closing" ]
    /\ SweepFlowFrame

\* finally: instrument.close()  (main.py line 139, app.py lines 859-860 and
\* 1017-1018).
SwClose ==
    /\ aux.m = "sweep"
    /\ aux.pc = "closing"
    /\ aux' = [ aux EXCEPT !.handle = "closed", !.pc = "done",
                           !.closed_after = aux.torn ]
    /\ SweepFlowFrame

SweepFlowNext ==
    \/ SwConnect
    \/ SwSetup
    \/ SwRunSweepBegin
    \/ SwStep
    \/ SwRunSweepEnd
    \/ SwTeardown
    \/ SwClose

(***************************************************************************)
(* Part II, properties                                                     *)
(***************************************************************************)
\* The limits of the 81180A on what is programmed into it.
WithinHardwareLimits(r) ==
    /\ r.sample_rate >= MinSampleRate
    /\ r.sample_rate <= MaxSampleRate
    /\ r.points >= MinSegment
    /\ r.points % SegmentStep = 0

\* C7: for every configuration in arbitrary mode on which validate() reports no
\* error, whatever resolution_n it holds, the sample rate and the segment
\* length that setup_arbitrary sends to the instrument are inside the hardware
\* limits (10 MSa/s .. 4.2 GSa/s, at least 320 points, a multiple of 32).
C7_ProgrammedWithinLimits ==
    programmed.status = "sent" => WithinHardwareLimits(programmed)

\* C8: every call of _calc_arb_params comes to an end, by returning or by
\* raising; it never loops forever.
C8_CalcTerminates == <>(apc \in { "done", "raised" })

\* width_ps * points is an integer multiple of period_ps.  The product is
\* not formed: p divides w * n exactly when p / gcd(p, w) divides n.
Represents(w_ps, points, p_ps) ==
    points % (Abs(p_ps) \div Gcd(p_ps, w_ps)) = 0

\* A call of _calc_arb_params has just returned to the caller.
CalcReturned == apc \in { "call2", "done" } /\ ret.status = "ok"

\* C9: whenever _calc_arb_params returns, points_per_period is at least 320,
\* a multiple of 32, resolution_n times the value returned for resolution 1,
\* and every width (rounded to picoseconds) times points_per_period is an
\* integer multiple of the period (rounded to picoseconds).
C9_ExactRepresentation ==
    CalcReturned =>
        /\ ret.points >= MinSegment
        /\ ret.points % SegmentStep = 0
        /\ \A i \in 1..Len(cfg.widths) :
              Represents(PsWidth(cfg.widths[i]), ret.points, PsPeriod(cfg.frequency))
        /\ apc = "done" => ret.points = cfg.resolution_n * ret1.points

\* C9, its case: a call with resolution_n >= 2 and several widths returned
\* after the loops had to raise k.
C9_Witness ==
    /\ apc = "done"
    /\ ret.status = "ok"
    /\ cfg.resolution_n >= 2
    /\ Len(cfg.widths) >= 2
    /\ k > 1

\* C10: validate() never raises; whatever the field values it returns, and
\* the list it returns holds every violated rule.
C10_ValidateNeverRaises ==
    /\ ~ (apc = "raised" /\ caller = "validate")
    /\ apc = "validated" => BasicErrors(cfg) \subseteq errors

\* The entries of log with command c.
Sent(c) == { i \in DOMAIN log : log[i].cmd = c }

\* C11: when validate() reports no error, frequency > 0, trigger_delay is a
\* non-negative multiple of 8, |v_on - v_off| / 2 is in 0.05 .. 2.0 V and
\* (v_on + v_off) / 4 in -1.5 .. 1.5 V; every :VOLT:AMPLitude and :VOLT:OFFSet
\* that setup and setup_arbitrary send carries exactly these two values, so
\* no channel is switched on outside the envelope.
C11_SafeEnvelope ==
    /\ (apc = "validated" /\ errors = { }) =>
          /\ cfg.frequency > 0
          /\ cfg.trigger_delay >= 0
          /\ cfg.trigger_delay % 8 = 0
          /\ (cfg.v_on - cfg.v_off \in 1..40 \/ cfg.v_off - cfg.v_on \in 1..40)
          /\ cfg.v_on + cfg.v_off \in -60..60
    /\ \A i \in Sent(":VOLT:AMPLitude") :
          /\ log[i].arg \in 1..40
          /\ log[i].arg \in { cfg.v_on - cfg.v_off, cfg.v_off - cfg.v_on }
    /\ \A i \in Sent(":VOLT:OFFSet") :
          /\ log[i].arg \in -60..60
          /\ log[i].arg = cfg.v_on + cfg.v_off
    /\ \A c \in { 1, 2 } :
          inst.ch[c].output = "ON" =>
              /\ inst.ch[c].ampl \in 1..40
              /\ inst.ch[c].offs \in -60..60
              /\ inst.ch[c].delay >= 0
              /\ inst.ch[c].delay % 8 = 0

\* C11, its case: setup_arbitrary has switched channel 2 on for a
\* configuration with v_on below v_off.
C11_Witness ==
    /\ inst.ch[2].output = "ON"
    /\ inst.ch[2].mode = "USER"
    /\ cfg.v_on < cfg.v_off
    /\ Sent(":VOLT:AMPLitude") # { }

\* C12: validate() reports the polarity violation exactly when waveform_mode
\* is "square" and v_on < v_off, for each kind of configuration; in arbitrary
\* mode the same voltages give no polarity violation.
C12_PolarityOnlyInSquareMode ==
    apc = "validated" =>
        ("polarity" \in errors <=> (cfg.waveform_mode = "square" /\ cfg.v_on < cfg.v_off))

\* C12, its case: a sweep configuration with v_on < v_off in square mode is
\* reported.
C12_Witness ==
    /\ apc = "validated"
    /\ cfg.kind = "sweep"
    /\ cfg.waveform_mode = "square"
    /\ cfg.v_on < cfg.v_off
    /\ "polarity" \in errors

\* What the running (or last) instrument method or sweep has done.
OpLog == SubSeq(log, op_start + 1, Len(log))

IsDelayCommand(c) == c.cmd = ":TRIGger:DELay"
IsSleep(c) == c.cmd = "sleep"
IsCallback(c) == c.cmd = "callback"

\* run_sweep has been called and control has left it.
RunSweepLeft == caller = "run_sweep" /\ apc = "idle"

\* sweep_delay of run_sweep: trigger_delay_stop set and different from
\* trigger_delay.
SweepDelayActive(c) ==
    c.trigger_delay_stop.set /\ c.trigger_delay_stop.val # c.trigger_delay

\* C13: in run_sweep with trigger_delay_stop set and different from
\* trigger_delay, width_start # width_stop and (width_stop - width_start) a
\* whole multiple of width_step, the first delay sent is trigger_delay, the
\* last is trigger_delay_stop, and every delay sent is a multiple of 8.
C13_DelayEndpoints ==
    ( /\ RunSweepLeft
      /\ SweepDelayActive(cfg)
      /\ cfg.width_start # cfg.width_stop
      /\ (cfg.width_stop - cfg.width_start) % cfg.width_step = 0 )
    => LET ds == SelectSeq(OpLog, IsDelayCommand)
       IN  /\ ds # << >>
           /\ ds[1].arg = cfg.trigger_delay
           /\ ds[Len(ds)].arg = cfg.trigger_delay_stop.val
           /\ \A i \in DOMAIN ds : ds[i].arg % 8 = 0

\* C15: run_sweep goes through the indices 0 .. total - 1 in increasing
\* order (wait, delays, widths, callback at each) and waits once more at the
\* end: total + 1 waits and total callbacks, callback i being the i-th, and
\* only channels of the channels argument are selected.
C15_SweepSteps ==
    RunSweepLeft =>
        LET total == Len(WidthsOf(cfg))
            cbs == SelectSeq(OpLog, IsCallback)
        IN  /\ Len(SelectSeq(OpLog, IsSleep)) = total + 1
            /\ Len(cbs) = total
            /\ \A i \in DOMAIN cbs : cbs[i].arg = i - 1 /\ cbs[i].arg2 = total
            /\ OpLog # << >> => IsSleep(OpLog[1]) /\ IsSleep(OpLog[Len(OpLog)])
            /\ \A i \in DOMAIN OpLog :
                  OpLog[i].cmd = ":INST" => OpLog[i].arg \in Range(channels)

\* C14: when the width sweep is set to table mode with at least two saved
\* pulse records, the sweep configuration is built and carries those records
\* as its delay_table, the source of the delay applied at each sweep step.
C14_TableDelaysFromRecords ==
    ( /\ ui.tab = "sweep"
      /\ ui.parse_ok
      /\ ui.delay_mode = "table"
      /\ Len(ui.saved_pulse_records) >= 2
      /\ apc # "script" )
    => /\ apc = "built"
       /\ HasAttr(cfg, "delay_table")
       /\ cfg.delay_table = DelayTable(ui)

\* run_delay_sweep has just returned to its caller.
RunDelaySweepReturned == cfg.kind = "delay" /\ apc = "teardown" /\ ch_i = 1

\* C16: run_delay_sweep applies delay_start, delay_start + delay_step, ...,
\* (delay_stop - delay_start) // delay_step + 1 delays, none above delay_stop,
\* in increasing order; for each it waits wait_time, sets the delay on every
\* target channel in turn, then calls callback(i, total); it waits once more
\* after the last; every delay sent is a non-negative multiple of 8.
C16_DelaySweepSteps ==
    RunDelaySweepReturned =>
        LET n == (cfg.delay_stop - cfg.delay_start) \div cfg.delay_step + 1
            total == IF n < 0 THEN 0 ELSE n
            nch == Len(channels)
            blk == 2 * nch + 2
        IN  /\ Len(OpLog) = total * blk + 1
            /\ OpLog[Len(OpLog)] = Cmd("sleep", cfg.wait_time)
            /\ \A i \in 0..(total - 1) :
                  LET d == cfg.delay_start + i * cfg.delay_step
                  IN  /\ d <= cfg.delay_stop
                      /\ d >= 0
                      /\ d % 8 = 0
                      /\ OpLog[i * blk + 1] = Cmd("sleep", cfg.wait_time)
                      /\ \A j \in 1..nch :
                            /\ OpLog[i * blk + 2 * j] = Cmd(":INST", channels[j])
                            /\ OpLog[i * blk + 2 * j + 1] = Cmd(":TRIGger:DELay", d)
                      /\ OpLog[i * blk + blk] = Cmd2("callback", i, total)

\* C16, its case: a delay sweep on both channels whose delay_stop is not on
\* the grid of the steps has returned.
C16_Witness ==
    /\ RunDelaySweepReturned
    /\ channels = << 1, 2 >>
    /\ cfg.delay_start = 0
    /\ cfg.delay_stop = 24
    /\ cfg.delay_step = 16
    /\ Len(SelectSeq(OpLog, IsDelayCommand)) = 4

\* C17: for positive start <= stop and step, _generate_widths returns
\* round((stop - start) / step) + 1 values, the first is start, every value
\* lies in [start, stop], and the last is stop when (stop - start) is a
\* whole multiple of step.
C17_InclusiveSequence ==
    (cfg.kind = "widths" /\ apc = "done") =>
        LET ws == arg_widths
        IN  /\ Len(ws) = RoundHalfEven(cfg.width_stop - cfg.width_start, cfg.width_step) + 1
            /\ ws # << >>
            /\ ws[1] = cfg.width_start
            /\ \A i \in DOMAIN ws : cfg.width_start <= ws[i] /\ ws[i] <= cfg.width_stop
            /\ (cfg.width_stop - cfg.width_start) % cfg.width_step = 0
                  => ws[Len(ws)] = cfg.width_stop

\* setup_arbitrary is running, or was the last method to run.
InSetupArbitrary ==
    /\ caller = "setup"
    /\ cfg.waveform_mode = "arbitrary"
    /\ apc \in { "calc_entry", "calc_scale", "calc_align", "setup_ret", "upload",
                 "setup", "run_sweep", "run_delay_sweep", "idle" }

\* setup_arbitrary has returned and nothing has run since.
SetupArbitraryReturned ==
    InSetupArbitrary /\ apc \in { "setup", "run_sweep", "run_delay_sweep", "idle" }

\* C18: setup_arbitrary sends, in this order: channel select, user mode,
\* delete all segments, sample clock; for each width in list order: define
\* segment i + 1, select it, upload it, *OPC?, callback; then select segment 1,
\* amplitude, offset, trigger delay, output ON, *OPC?.  So the output is
\* switched on only after every segment was uploaded and confirmed, and a
\* segment is defined only after the previous one was confirmed.
C18_SetupArbitraryOrder ==
    InSetupArbitrary =>
        LET L == OpLog
            N == Len(WidthsOf(cfg))
            cb == IF cfg.kind = "sweep" THEN 1 ELSE 0
            blk == 4 + cb
            tail == 4 + N * blk
            on == { p \in DOMAIN L : L[p].cmd = ":OUTPut ON" }
            def == { p \in DOMAIN L : L[p].cmd = ":TRACe:DEF" }
            opc == { p \in DOMAIN L : L[p].cmd = "*OPC?" }
        IN  /\ Len(L) >= 3
            /\ L[1].cmd = ":INST" /\ L[1].arg \in { 1, 2 }
            /\ ~SetupArbitraryReturned => L[1].arg = channels[ch_i]
            /\ L[2] = Cmd(":FUNC:MODE USER", 0)
            /\ L[3] = Cmd(":TRAC:DEL:ALL", 0)
            /\ Len(L) >= 4 => L[4] = Cmd(":FREQ:RAST", ret.sample_rate)
            /\ \A i \in 0..(N - 1) :
                  /\ Len(L) >= 4 + i * blk + 1 =>
                        L[4 + i * blk + 1] = Cmd2(":TRACe:DEF", i + 1, ret.points)
                  /\ Len(L) >= 4 + i * blk + 2 =>
                        L[4 + i * blk + 2] = Cmd(":TRACe:SEL", i + 1)
                  /\ Len(L) >= 4 + i * blk + 3 =>
                        L[4 + i * blk + 3] = Cmd(":TRACe:DATA", i + 1)
                  /\ Len(L) >= 4 + i * blk + 4 =>
                        L[4 + i * blk + 4] = Cmd("*OPC?", 0)
                  /\ (cb = 1 /\ Len(L) >= 4 + i * blk + 5) =>
                        L[4 + i * blk + 5] = Cmd2("callback", i, N)
            /\ Len(L) > tail =>
                  /\ Len(L) = tail + 6
                  /\ L[tail + 1] = Cmd(":TRACe:SEL", 1)
                  /\ L[tail + 2].cmd = ":VOLT:AMPLitude"
                  /\ L[tail + 3].cmd = ":VOLT:OFFSet"
                  /\ L[tail + 4] = Cmd(":TRIGger:DELay", cfg.trigger_delay)
                  /\ L[tail + 5] = Cmd(":OUTPut ON", 0)
                  /\ L[tail + 6] = Cmd("*OPC?", 0)
            /\ SetupArbitraryReturned => Len(L) = tail + 6
            /\ \A p \in on : Cardinality({ q \in def : q < p }) = N
                             /\ Cardinality({ q \in opc : q < p }) = N
            /\ \A p \in def : L[p].arg > 1 => \E q \in opc : q < p /\ q >= p - 2

\* C18, its case: setup_arbitrary has uploaded three segments, with callbacks,
\* on each of two channels and returned.
C18_Witness ==
    /\ SetupArbitraryReturned
    /\ apc = "run_sweep"
    /\ channels = << 1, 2 >>
    /\ Len(WidthsOf(cfg)) = 3
    /\ inst.ch[1].output = "ON"
    /\ inst.ch[2].output = "ON"

\* set_dc_zero() has returned and nothing has run since.
SetDcZeroReturned == caller = "set_dc_zero" /\ apc = "idle"

\* C19: after set_dc_zero() both channels are in the safe state: output
\* disabled, phase 0, shape DC, DC offset 0, on channel 1 and on channel 2.
C19_BothChannelsSafe ==
    SetDcZeroReturned =>
        \A c \in { 1, 2 } :
            /\ inst.ch[c].output = "OFF"
            /\ inst.ch[c].phase = 0
            /\ inst.ch[c].shape = "DC"
            /\ inst.ch[c].dc_offset = 0

\* C20: teardown(channel) changes only the selected channel: its first command
\* selects that channel, it selects no other channel, every state-changing
\* command follows that select, and the other channel's output, shape, phase
\* and offsets are what they were before the call.
C20_TeardownFrame ==
    [][ apc = "teardown" =>
          LET c == channels[ch_i]
              L == OpLog'
          IN  /\ Len(L) >= 1
              /\ L[1] = Cmd(":INST", c)
              /\ \A p \in DOMAIN L : L[p].cmd = ":INST" => L[p].arg = c
              /\ inst'.sel = c
              /\ inst'.ch[3 - c] = inst.ch[3 - c]
              /\ inst'.ch[c].output = "OFF"
              /\ inst'.ch[c].phase = 0
              /\ inst'.ch[c].shape = "DC"
              /\ inst'.ch[c].dc_offset = 0 ]_vars

\* C20, its case: channel 1 was torn down while channel 2 is generating.
C20_Witness ==
    /\ caller = "teardown"
    /\ apc = "idle"
    /\ channels = << 1 >>
    /\ inst.ch[1].output = "OFF"
    /\ inst.ch[1].shape = "DC"
    /\ inst.ch[2].output = "ON"

\* ---- the command line ----------------------------------------------------------
CliExited == cli.mode # "none" /\ apc = "exited"

StateChangingSteps == { "setup", "setup_arbitrary", "run_sweep", "teardown", "set_dc_zero" }

DocumentValid ==
    IF "validate" \in Range(cli.trace) THEN errors = { }
    ELSE cfg.waveform_mode = "square" /\ BasicErrors(cfg) = { }

\* C23: for a document whose values satisfy the validation rules and an
\* instrument that answers every command, sweep mode does, in order:
\* construction, validation, probe, connect, setup (arbitrary upload or square
\* arming), the sweep, teardown, disconnect, and ends normally.
C23_SweepModeCompletes ==
    (CliExited /\ cli.mode = "sweep" /\ cli.faults = 0 /\ DocumentValid) =>
        /\ cli.status = 0
        /\ exc = "none"
        /\ LET t == cli.trace
               body == << "validate", "probe", "connect",
                          IF cfg.waveform_mode = "arbitrary" THEN "setup_arbitrary"
                          ELSE "setup",
                          "run_sweep", "teardown", "close" >>
           IN  t = IF cli.entry = "main" THEN << "construct" >> \o body ELSE body

\* C24: PulseInstrument(...) closes the handle it opened and lets the error
\* through when the identification query fails; check_connection closes its
\* handle whether the query succeeds or fails and keeps none.
C24_NoHandleAfterFailure ==
    cli.mode # "none" =>
        /\ cli.connect = "none" => cli.closed = cli.opened
        /\ cli.connect = "failed" =>
              /\ cli.closed = cli.opened
              /\ cli.session = "none"
              /\ apc = "exited"
              /\ exc = "VisaIOError"

\* C24, its case: the probe answered, then the query of the constructor
\* failed on the handle the constructor had opened.
C24_Witness ==
    /\ cli.mode # "none"
    /\ cli.probe = "ok"
    /\ cli.connect = "failed"
    /\ cli.opened = 2
    /\ cli.closed = 2

\* ---- the console session -------------------------------------------------------
\* C25: after any sequence of console actions, each of which may fail at any
\* instrument command, every handle the console opened is closed, except the
\* one stored as live instrument while the live flag is true: no handle is
\* open and stored nowhere, none is stored while the flag is false, and a
\* stored handle is never replaced without being closed.
C25_HandlesAccounted ==
    sess.page = "pulse" =>
        /\ sess.orphans = 0
        /\ ~ sess.live_connection => sess.live_instrument = "none"
        /\ Count(sess.last.events, "open")
              = Count(sess.last.events, "close") + Count(sess.last.events, "store_live")

\* Stop returned without an exception.
StopReturned == sess.page = "pulse" /\ sess.last.action = "stop" /\ ~ sess.last.raised

\* C26: Stop on a running channel tears the channel down and clears its
\* running flag; with the live connection active and the other channel not
\* running, the live connection is closed and its flag cleared; with the other
\* channel still running the live connection stays open.
C26_StopAndAutoOff ==
    StopReturned =>
        LET l == sess.last
        IN  /\ "teardown" \in Range(l.events)
            /\ ~ sess.ch_running[l.channel]
            /\ sess.ch_running[Other(l.channel)] = l.other_running
            /\ (l.was_live /\ ~ l.other_running) =>
                  /\ ~ sess.live_connection
                  /\ sess.live_instrument = "none"
                  /\ l.was_stored = "open" => "close_live" \in Range(l.events)
            /\ (l.was_live /\ l.other_running) =>
                  /\ sess.live_connection
                  /\ sess.live_instrument = l.was_stored
                  /\ "close_live" \notin Range(l.events)

\* C26, its case: Stop of the last running channel on the live connection.
C26_Witness ==
    /\ StopReturned
    /\ sess.last.was_live
    /\ sess.last.was_stored = "open"
    /\ ~ sess.last.other_running
    /\ sess.last.events = << "teardown", "flag_cleared", "close_live" >>

\* DC 0V or Check ran while the live flag was set.
PreemptedLive ==
    sess.page = "pulse" /\ sess.last.action \in { "dc_zero", "check" } /\ sess.last.was_live

\* C27: DC 0V (or Check) with the live connection active closes the live
\* handle and clears the flag before it opens its own session, and closes its
\* own session whether or not set_dc_zero succeeds.
C27_PreemptThenOwnSession ==
    PreemptedLive =>
        LET ev == sess.last.events
        IN  /\ ~ sess.live_connection
            /\ sess.live_instrument = "none"
            /\ sess.last.was_stored = "open" => (ev # << >> /\ ev[1] = "close_live")
            /\ \A p \in DOMAIN ev : ev[p] \in { "open", "open_failed" } =>
                  \A q \in DOMAIN ev : ev[q] = "close_live" => q < p
            /\ Count(ev, "open") = Count(ev, "close")
            /\ \A p \in DOMAIN ev : ev[p] = "open" => ev[Len(ev)] = "close"

\* C27, its case: DC 0V on a live connection, with set_dc_zero raising.
C27_Witness ==
    /\ PreemptedLive
    /\ sess.last.action = "dc_zero"
    /\ sess.last.raised
    /\ sess.last.events = << "close_live", "open", "set_dc_zero", "close" >>

\* ---- configuration files -------------------------------------------------------
RECURSIVE DecimalValue(_)
\* The number a sequence of decimal digits writes.
DecimalValue(ds) ==
    IF ds = << >> THEN 0 ELSE DecimalValue(SubSeq(ds, 1, Len(ds) - 1)) * 10 + ds[Len(ds)]

\* ds is nn written in decimal, zero padded to two digits.
IsTwoDigitName(ds, nn) ==
    /\ DecimalValue(ds) = nn
    /\ Len(ds) = IF nn < 100 THEN 2 ELSE IF nn < 1000 THEN 3 ELSE 4

\* C28: next_save_path returns {dir}/{prefix}{NN}.toml for the smallest
\* NN >= 1, two-digit zero padded, whose path does not exist, never an existing
\* path; so Save TOML actions with one directory and prefix write pairwise
\* distinct files and never overwrite one.
C28_NextSavePathFresh ==
    (files.op = "save_toml" /\ files.returned # << >>) =>
        LET r == files.returned
            nn == DecimalValue(r)
        IN  /\ nn >= 1
            /\ IsTwoDigitName(r, nn)
            /\ r \notin files.before
            /\ \A m \in 1..(nn - 1) : \E x \in files.before : IsTwoDigitName(x, m)
            /\ \A a, b \in DOMAIN files.saved : a # b => files.saved[a] # files.saved[b]
            /\ ~ files.overwrote

\* C28, its case: three saves into a directory that holds 01 .. 99 and the
\* file {prefix}1.toml.
C28_Witness ==
    /\ files.op = "save_toml"
    /\ files.saved = << << 1, 0, 0 >>, << 1, 0, 1 >>, << 1, 0, 2 >> >>
    /\ << 1 >> \in files.existing
    /\ files.returned = << 1, 0, 2 >>

\* C29: load_unified_toml of the file save_unified_toml(d) wrote gives d,
\* except inside common: period is dropped when frequency is present, and
\* replaced by frequency = 1 / period when frequency is absent.
C29_UnifiedRoundTrip ==
    files.op = "loaded_unified" =>
        /\ files.raised = "none"
        /\ LET d == files.doc
               r == files.result
           IN  /\ DOMAIN r = DOMAIN d
               /\ \A sn \in DOMAIN d : sn # "common" => r[sn] = d[sn]
               /\ "common" \in DOMAIN d =>
                     LET c == d["common"]
                         rc == r["common"]
                     IN  /\ "period" \notin DOMAIN rc
                         /\ \A kn \in DOMAIN c \ { "period", "frequency" } :
                               kn \in DOMAIN rc /\ rc[kn] = c[kn]
                         /\ "frequency" \in DOMAIN c =>
                               /\ DOMAIN rc = DOMAIN c \ { "period" }
                               /\ rc["frequency"] = c["frequency"]
                         /\ ("frequency" \notin DOMAIN c /\ "period" \in DOMAIN c) =>
                               /\ DOMAIN rc = (DOMAIN c \ { "period" }) \cup { "frequency" }
                               /\ rc["frequency"] * c["period"] = 1000
                         /\ ("frequency" \notin DOMAIN c /\ "period" \notin DOMAIN c) =>
                               rc = c

\* C30: from_toml uses frequency and discards period when both are present,
\* ignores keys that are not fields, and fills a missing recognized key with a
\* default instead of failing.
C30_FromTomlDefaults ==
    files.op = "loaded_config" =>
        /\ files.raised = "none"
        /\ LET d == files.doc
               r == files.result
           IN  /\ DOMAIN r = ExploredFields
               /\ "bogus" \notin DOMAIN r
               /\ "period" \notin DOMAIN r
               /\ (\E sn \in DOMAIN d : "frequency" \in DOMAIN d[sn]) =>
                     \E sn \in DOMAIN d : /\ "frequency" \in DOMAIN d[sn]
                                          /\ r["frequency"] = d[sn]["frequency"]

\* ---- run_fem, the homotopy parameters --------------------------------------------
\* C35: whenever _solve_newton returns normally, by the direct attempt or by
\* the homotopy fallback, hmtp_charge and hmtp_sigma both equal 1, so every
\* potential field that run_fem persists, snapshots or hands to the next bias
\* point is a converged solution of the full-strength problem.
C35_FullStrengthOnReturn ==
    /\ SolveReturned => hmtp_charge = n_hmtp_steps /\ hmtp_sigma = n_hmtp_steps
    /\ \A i \in DOMAIN saves :
          saves[i].data.kind = "conv" /\ saves[i].data.h = n_hmtp_steps
    /\ u_zero # UNone => u_zero.kind = "conv" /\ u_zero.h = n_hmtp_steps
    /\ \A i \in DOMAIN solves :
          /\ solves[i].result.kind = "conv" /\ solves[i].result.h = n_hmtp_steps
          /\ solves[i].from # UInit =>
                solves[i].from.kind = "conv" /\ solves[i].from.h = n_hmtp_steps

\* C35, its case: a bias point solved through all homotopy steps was saved
\* and handed to the next bias point, which has returned too.
C35_Witness ==
    /\ SolveReturned
    /\ Len(solves) >= 3
    /\ u_zero # UNone
    /\ \E i \in DOMAIN saves : saves[i].v # 0
    /\ Len(newton_log) = n_hmtp_steps + 2

\* ---- the multimeter ---------------------------------------------------------------
\* C31: Multimeter.close(), and leaving the with scope normally or through an
\* exception, always attempts to send SYST:LOC and then attempts to close the
\* handle, also when sending SYST:LOC failed, and raises no error of its own:
\* what leaves the scope is the exception of the body, or nothing.
C31_CloseBestEffort ==
    (aux.m = "dmm" /\ aux.closes >= 1) =>
        /\ Len(aux.last_close) = 2
        /\ aux.last_close[1].cmd = "SYST:LOC"
        /\ aux.last_close[2].cmd = "close"
        /\ ~ aux.close_raised
        /\ aux.left_with = aux.pending

\* C31, its case: the body raised, and in the cleanup both the SYST:LOC write
\* and the close of the handle failed.
C31_Witness ==
    /\ aux.m = "dmm"
    /\ aux.scope = "with"
    /\ aux.pc = "exited"
    /\ aux.pending = "ValueError"
    /\ aux.last_close = << [ cmd |-> "SYST:LOC", out |-> "fails" ],
                           [ cmd |-> "close", out |-> "fails" ] >>

\* ---- logging ------------------------------------------------------------------------
\* C32: after any number of calls of setup_logging the root logger carries
\* exactly one file handler and one console handler, so each record is written
\* once to each sink.
C32_OneHandlerPerSink ==
    (aux.m = "logging" /\ aux.runs >= 1) =>
        /\ Len(aux.file_handlers) = 1
        /\ aux.stream_handlers = 1
        /\ aux.last = [ console |-> 1, file |-> 1 ]

\* ---- the pulse waveform -----------------------------------------------------------
\* on is n * duty / 100 rounded to the nearest integer, a tie going to the
\* even one (duty in tenths of a percent).
IsRounded(on, n, duty) ==
    /\ 2 * Abs(on * 1000 - n * duty) <= 1000
    /\ 2 * Abs(on * 1000 - n * duty) = 1000 => on % 2 = 0

\* C33: for points_per_period >= 1 and duty in [0, 100],
\* _generate_pulse_waveform returns points_per_period samples, of which
\* round(points_per_period * duty / 100) carry the ON code, in one contiguous
\* run starting at floor((points_per_period - on) / 2), the others the OFF
\* code; ON / OFF are 4095 / 0 for inverted = False and 0 / 4095 for
\* inverted = True, the inverted waveform being the elementwise swap.
C33_CenteredRun ==
    (aux.m = "wave" /\ aux.pc = "returned" /\ aux.duty_cycle <= 1000) =>
        LET n == aux.points_per_period
            w == aux.waveform
            on_code == IF aux.inverted THEN 0 ELSE 4095
            off_code == IF aux.inverted THEN 4095 ELSE 0
            on_set == { i \in DOMAIN w : w[i] = on_code }
            on == Cardinality(on_set)
            first == (n - on) \div 2
        IN  /\ Len(w) = n
            /\ IsRounded(on, n, aux.duty_cycle)
            /\ on_set = { i \in 1..n : first < i /\ i <= first + on }
            /\ \A i \in DOMAIN w \ on_set : w[i] = off_code
            /\ Len(aux.other) = n
            /\ \A i \in 1..n : aux.other[i] = 4095 - w[i]

\* C33, its case: an inverted waveform of 8 points at 37.5 % duty, whose ON
\* run is neither empty nor the whole period and does not sit symmetrically.
C33_Witness ==
    /\ aux.m = "wave"
    /\ aux.pc = "returned"
    /\ aux.points_per_period = 8
    /\ aux.duty_cycle = 375
    /\ aux.inverted
    /\ aux.waveform = << 4095, 4095, 0, 0, 0, 4095, 4095, 4095 >>

\* ---- the console, Start ---------------------------------------------------------
\* Position of the first e in es, 0 if there is none.
FirstIndex(es, e) ==
    IF \E i \in DOMAIN es : es[i] = e
    THEN CHOOSE i \in DOMAIN es : es[i] = e /\ \A j \in 1..(i - 1) : es[j] # e
    ELSE 0

\* C34: a channel's running flag becomes true only after setup_arbitrary for
\* that channel completed without error; when Start fails at the connection
\* or at a setup command the flag stays false, and a handle opened only for
\* that Start (no live connection) is closed.
C34_StartMarksAfterSetup ==
    (sess.page = "pulse" /\ sess.last.action = "start") =>
        LET l == sess.last
        IN  /\ sess.ch_running[l.channel] = ~ l.raised
            /\ ~ l.raised => FirstIndex(l.events, "setup_arbitrary") > 0
            /\ (~ l.was_live /\ FirstIndex(l.events, "open") > 0) =>
                  /\ FirstIndex(l.events, "close") > FirstIndex(l.events, "setup_arbitrary")
                  /\ l.events[Len(l.events)] = "close"

\* C34, its case: Start without live connection connected and failed at a
\* setup command.
C34_Witness ==
    /\ sess.page = "pulse"
    /\ sess.last.action = "start"
    /\ sess.last.raised
    /\ ~ sess.last.was_live
    /\ sess.last.events = << "open", "setup_arbitrary", "close" >>

\* ---- the console, sessions and flags ---------------------------------------------
\* C37: the console never holds two open sessions to the instrument: no
\* action (Start, Stop, Live On, width sweep, delay sweep, Check, DC 0V) opens
\* a new session while the live handle is open, unless it closed the live
\* handle first.
C37_OneSessionAtATime ==
    sess.page = "pulse" =>
        /\ (IF sess.live_instrument = "open" THEN 1 ELSE 0) + sess.orphans <= 1
        /\ (sess.last.was_stored = "open" /\ FirstIndex(sess.last.events, "open") > 0) =>
              /\ FirstIndex(sess.last.events, "close_live") > 0
              /\ FirstIndex(sess.last.events, "close_live")
                    < FirstIndex(sess.last.events, "open")

\* C40: the running flags agree with the state the console last commanded:
\* after a DC 0V action completed successfully, neither channel is marked
\* running.
C40_DcZeroClearsFlags ==
    (sess.page = "pulse" /\ sess.last.action = "dc_zero" /\ ~ sess.last.raised) =>
        sess.ch_running = << FALSE, FALSE >>

\* ---- the sweep flows --------------------------------------------------------------
\* C36: in every flow that has enabled output on a channel (CLI sweep mode,
\* console width sweep, console delay sweep), teardown of each enabled channel
\* is executed before the session is closed, also when a later setup command
\* or the sweep itself raises.
C36_TeardownBeforeClose ==
    (aux.m = "sweep" /\ aux.pc = "done" /\ aux.handle = "closed") =>
        aux.enabled \subseteq aux.closed_after

InitFem == FemInit /\ ArbIdle /\ InstIdle /\ UiIdle /\ EntryIdle

\* run_fem over every Vtip_list and every outcome of every Newton call.
SpecFem == InitFem /\ [][FemNext]_vars

InitCalc == FemIdle /\ CalcInit /\ InstIdle /\ UiIdle /\ EntryIdle

\* _calc_arb_params applied to every explored input.
SpecCalc == InitCalc /\ [][CalcNext]_vars

\* The same, with the interpreter never stopping in the middle of a call.
SpecCalcFair == InitCalc /\ [][CalcNext]_vars /\ WF_vars(CalcNext)

InitCfg == FemIdle /\ CfgInit /\ InstIdle /\ UiIdle /\ EntryIdle

\* validate() and the start of the output for every explored configuration.
SpecCfg == InitCfg /\ [][CfgNext]_vars

InitApp == FemIdle /\ AppInit /\ InstIdle /\ EntryIdle

\* One run of the console script through the width sweep tab.
SpecApp == InitApp /\ [][AppNext]_vars

InitWidths == FemIdle /\ WidthsInit /\ InstIdle /\ UiIdle /\ EntryIdle

InitCli == FemIdle /\ CliInit /\ InstIdle /\ UiIdle

InitFiles == FemIdle /\ ArbIdle /\ InstIdle /\ UiIdle /\ SessIdle /\ CliIdle /\ FilesInit /\ AuxIdle

\* The loaders and savers of config.py applied to every explored document and
\* directory.
SpecFiles == InitFiles /\ [][FilesNext]_vars

InitCon == FemIdle /\ ArbIdle /\ InstIdle /\ UiIdle /\ SessInit /\ CliIdle /\ FilesIdle /\ AuxIdle

\* The handlers of the pulse tab and the sidebar, in every order, with every
\* outcome of every instrument call.
SpecCon == InitCon /\ [][ConNext]_vars

\* main_pulse, main_sweep and main_dc for every explored configuration and
\* every outcome of every instrument call.
SpecCli == InitCli /\ [][CliNext]_vars

\* _generate_widths applied to every explored input.
SpecWidths == InitWidths /\ [][WidthsNext]_vars

InitDmm == FemIdle /\ ArbIdle /\ InstIdle /\ UiIdle /\ SessIdle /\ CliIdle /\ FilesIdle /\ DmmInit

\* The multimeter session: construction, measurements, cleanup.
SpecDmm == InitDmm /\ [][DmmNext]_vars

InitLog == FemIdle /\ ArbIdle /\ InstIdle /\ UiIdle /\ SessIdle /\ CliIdle /\ FilesIdle /\ LogInit

\* The root logger over the runs of the script in one process.
SpecLog == InitLog /\ [][LogNext]_vars

InitWave == FemIdle /\ ArbIdle /\ InstIdle /\ UiIdle /\ SessIdle /\ CliIdle /\ FilesIdle /\ WaveInit

\* _generate_pulse_waveform on every explored argument.
SpecWave == InitWave /\ [][WaveNext]_vars

InitSweepFlow == FemIdle /\ ArbIdle /\ InstIdle /\ UiIdle /\ SessIdle /\ CliIdle /\ FilesIdle /\ SweepFlowInit

\* The sweep flows of the command line and of the console.
SpecSweepFlow == InitSweepFlow /\ [][SweepFlowNext]_vars

====
